---- MODULE Spec2Model ----
(***************************************************************************)
(* EagleEye: unified multi-source search.                                  *)
(*                                                                         *)
(*  - the agent-driven bot (src/src/app.py, src/src/claude_agent.py): a    *)
(*    mention starts ClaudeSearchAgent.search, which consumes the agent's  *)
(*    message stream, reports progress and returns the answer text;        *)
(*  - the thread-pool bot (src/src/eagleeye/app.py): _unified_search fans  *)
(*    a query out to the per-source adapters;                              *)
(*  - the source adapters (src/src/eagleeye/integrations, and the parsing  *)
(*    helpers of src/src/mcp_integration/client.py);                       *)
(*  - the configured servers, the allowed tools and the query filter of    *)
(*    ClaudeSearchAgent (src/src/claude_agent.py);                         *)
(*  - MCPSearchClient._search_slack, channel by channel;                   *)
(*  - the /search and mention handlers up to the start of a search;        *)
(*  - _unified_search called twice;                                        *)
(*  - one tool invocation read by ClaudeSearchAgent.search, and one stream *)
(*    consumed with and without a progress callback;                       *)
(*  - MCPSearchClient: connect_all, disconnect_all and search              *)
(*    (src/src/mcp_integration/client.py);                                 *)
(*  - two mentions handled at once over the bot's one event loop;          *)
(*  - a mention from receipt to delivery, with Slack calls that may fail.  *)
(*                                                                         *)
(* Strings the code inspects are sequences of tokens: a text is a sequence *)
(* of words, a tool name the sequence of its "__"-separated segments.      *)
(***************************************************************************)
EXTENDS Integers, Sequences, FiniteSets, TLC

VARIABLES
    \* ---- agent-driven bot: handle_mention and ClaudeSearchAgent.search
    pc,                 \* position of the mention handler: idle, streaming, done
    channel_id,         \* event["channel"]
    message_ts,         \* ts of the loading message, "" when it was not posted
    on_progress,        \* TRUE when search was given a progress callback
    events,             \* SearchProgress values delivered to the callback, in order
    current_server,     \* search's local current_server
    completed_servers,  \* search's local completed_servers
    final_response,     \* search's local final_response
    turn_count,         \* search's local turn_count: messages consumed
    search_result,      \* what search did: nothing yet, returned a value, raised
    final_payload,      \* what handle_mention rendered
    delivery,           \* how handle_mention delivered it: none, help, update, say
    stream_end,         \* how the stream finished: not yet, ended, raised e
    last_text,          \* the last text block search has read from the stream
    shape,              \* the form of the stream consumed so far
    \* ---- thread-pool bot: _unified_search
    upc,                \* position of _unified_search: idle, collecting, done, raised
    call,               \* the arguments of the call in progress
    futures,            \* per source: none, pending, running, finished
    outcome,            \* per source: what its adapter's search did
    consumed,           \* the futures as_completed has yielded so far
    invoked,            \* per source: the (query, limit) of each adapter invocation
    results,            \* the accumulator _unified_search returns
    \* ---- source adapters
    apc,                \* idle, done
    backend,            \* the search under test, its limit, the backend's response
    adapter_out,        \* what the search did: raised, or the results returned
    \* ---- ClaudeSearchAgent: construction and _filter_servers_for_query
    fpc,                \* idle, ready (agent constructed), filtered
    settings,           \* the Settings the agent was constructed with
    mcp_servers,        \* self.mcp_servers: the names of the configured servers
    allowed_tools,      \* self.allowed_tools
    user_query,         \* the query given to _filter_servers_for_query
    filtered,           \* relevant, and the (filtered_servers, filtered_tools) returned
    \* ---- MCPSearchClient._search_slack
    spc,                \* idle, loop (over the channels), return, done
    slack_call,         \* the limit, the channel-list response and the calls made
    channel_pos,        \* the index of the channel the loop is at
    slack_results,      \* _search_slack's local results
    fetched,            \* the channels whose history was requested, in order
    last_fetch,         \* how the last of these requests ended
    skipped,            \* TRUE once a channel has failed and was skipped
    expected,           \* the matching messages of the fetched channels, up to limit
    slack_out,          \* the list _search_slack returned
    \* ---- the /search and mention handlers
    hpc,                \* idle, done
    handled,            \* the handler, its input, its reply and the search it started
    \* ---- _unified_search called twice
    responses,          \* per source: what its adapter's search does, at every call
    previous,           \* what the first of the two calls returned
    \* ---- one tool invocation
    tool_step,          \* the locals before and after one ToolUseBlock is read
    \* ---- search on one stream, with a callback and without
    tpc,                \* idle, streaming, done
    notified,           \* the locals of the run given a callback
    silent,             \* the locals of the run given none
    twin_turns,         \* messages consumed
    twin_out,           \* what each run did: returned a value, raised
    \* ---- MCPSearchClient
    mpc,                \* new, ready
    configs,            \* the server types of self.configs
    connections,        \* the server types of self.connections
    connected,          \* self._connected
    up,                 \* the servers that accept a connection now
    connect_up,         \* the servers that did at the last connect_all
    attempts,           \* per server: the connection attempts made so far
    connects,           \* the calls of connect_all so far
    searches,           \* the calls of search so far
    search_out,         \* the last search: its tasks, their answers, its result
    \* ---- two handler threads of the agent-driven bot
    lpc,                \* per thread: idle, check, create, run, start, running, done
    loop,               \* self._loop: 0 for None, else the number of the loop
    loops_created,      \* the event loops created so far
    used,               \* per thread: the loop it called run_until_complete on
    running,            \* the threads in which a loop is running a search
    run_result,         \* per thread: what _run_claude_search returned
    \* ---- handle_mention and its calls to Slack
    dpc,                \* idle, searching, streaming, done
    mention,            \* the words of event["text"] and event["channel"]
    loading_ts,         \* message_ts: "" when chat_postMessage did not post
    run,                \* the locals of search
    run_turns,          \* messages consumed
    run_end,            \* how the stream finished: not yet, ended, raised e
    search_outcome,     \* what search did: nothing yet, returned, raised
    rendered,           \* the final payload
    slack_log,          \* the calls made to Slack, in order, with their outcome
    handler_raised      \* TRUE when handle_mention ended by raising

agentVars == <<pc, channel_id, message_ts, on_progress, events, current_server,
               completed_servers, final_response, turn_count, search_result,
               final_payload, delivery, stream_end, last_text, shape>>
unifiedVars == <<upc, call, futures, outcome, consumed, invoked, results>>
adapterVars == <<apc, backend, adapter_out>>
filterVars == <<fpc, settings, mcp_servers, allowed_tools, user_query, filtered>>
slackVars == <<spc, slack_call, channel_pos, slack_results, fetched, last_fetch,
               skipped, expected, slack_out>>
handlerVars == <<hpc, handled>>
repeatVars == <<responses, previous>>
stepVars == <<tool_step>>
twinVars == <<tpc, notified, silent, twin_turns, twin_out>>
clientVars == <<mpc, configs, connections, connected, up, connect_up, attempts,
                connects, searches, search_out>>
loopVars == <<lpc, loop, loops_created, used, running, run_result>>
deliveryVars == <<dpc, mention, loading_ts, run, run_turns, run_end,
                  search_outcome, rendered, slack_log, handler_raised>>
vars == <<agentVars, unifiedVars, adapterVars, filterVars, slackVars,
          handlerVars, repeatVars, stepVars, twinVars, clientVars, loopVars,
          deliveryVars>>

None == "None"

\* ------------------------------------------------------------------ bounds
MaxMessages == 3
MaxBlocks == 2
MaxResults == 2
MaxLimit == 2
MaxItems == 3
MaxChannels == 6
MaxHistory == 2
MaxAtoms == 3
MaxConnects == 2
MaxSearches == 2

(***************************************************************************)
(* The agent stream                                                        *)
(***************************************************************************)
\* Tool names, as their "__"-separated segments.
ToolNames == { <<"mcp", "slack", "slack_list_channels">>,
               <<"mcp", "notion", "API-post-search">>,
               <<"Bash">> }

\* Answer texts, as token sequences; the empty text is <<>>.
ERROR_PREFIX == "__ERROR__:"
Texts == { <<>>, <<"found">>, <<ERROR_PREFIX, "found">> }

\* str(e) of the exceptions the stream may raise.
Errors == { <<>>, <<"boom">> }

NO_RESULTS == <<"no-results-placeholder">>

ToolUseBlock(name) == [type |-> "ToolUse", arg |-> name]
TextBlock(text) == [type |-> "Text", arg |-> text]
ToolResultBlock == [type |-> "ToolResult", arg |-> <<>>]

Blocks == {ToolUseBlock(n) : n \in ToolNames} \cup {TextBlock(t) : t \in Texts}
          \cup {ToolResultBlock}

Contents == UNION {[1..n -> Blocks] : n \in 0..MaxBlocks}

\* AssistantMessage carries content blocks; ResultMessage has no content
\* attribute (getattr(message, "content", []) is []); every other message
\* type (user, system) is not inspected whatever it carries.
Messages == {[kind |-> "Assistant", content |-> c] : c \in Contents}
            \cup {[kind |-> "Result", content |-> <<>>]}
            \cup {[kind |-> "Other", content |-> c] :
                    c \in {<<>>, <<ToolResultBlock>>, <<TextBlock(<<"found">>)>>}}

\* re.match(r"mcp__(\w+)__", tool_name): the name must start with the segment
\* "mcp" and hold a server segment followed by "__".  (The names modelled have
\* at most three segments; \w+ being greedy, a name with more word-only
\* segments would yield all of them but the last.)
extract_server_from_tool_name(tool_name) ==
    IF Len(tool_name) >= 3 /\ tool_name[1] = "mcp" THEN tool_name[2] ELSE None

\* SearchProgress(status, current_tool, completed_tools); a completed_tools
\* left at its default None is NoList.
NoList == <<None>>
SearchProgress(status, current_tool, completed_tools) ==
    [status |-> status, current_tool |-> current_tool,
     completed_tools |-> completed_tools]
Thinking == SearchProgress("thinking", None, NoList)
Searching(server, completed) == SearchProgress("searching", server, completed)
Consolidating(completed) == SearchProgress("consolidating", None, completed)

InSeq(x, s) == \E i \in 1..Len(s) : s[i] = x

\* The locals of search that the message loop updates.
Locals(cur, comp, ev, final) ==
    [cur |-> cur, comp |-> comp, ev |-> ev, final |-> final]

\* OnToolUse without the step that marks the previous server completed.
OnToolUse_NoComplete(st, name, cb) ==
    LET server == extract_server_from_tool_name(name) IN
    IF server # None /\ server # st.cur
    THEN Locals(server, st.comp,
                IF cb THEN Append(st.ev, Searching(server, st.comp)) ELSE st.ev,
                st.final)
    ELSE st

\* OnToolUse delivering a searching event at every tool invocation that
\* names a server, the active one included.
OnToolUse_EveryInvocation(st, name, cb) ==
    LET server == extract_server_from_tool_name(name) IN
    IF server # None
    THEN LET comp == IF st.cur # None /\ st.cur # server
                        /\ ~InSeq(st.cur, st.comp)
                     THEN Append(st.comp, st.cur) ELSE st.comp
         IN Locals(server, comp,
                   IF cb THEN Append(st.ev, Searching(server, comp)) ELSE st.ev,
                   st.final)
    ELSE st

\* OnToolUse appending the server it leaves even when completed_servers
\* already holds it.
OnToolUse_AppendAgain(st, name, cb) ==
    LET server == extract_server_from_tool_name(name) IN
    IF server # None /\ server # st.cur
    THEN LET comp == IF st.cur # None
                     THEN Append(st.comp, st.cur) ELSE st.comp
         IN Locals(server, comp,
                   IF cb THEN Append(st.ev, Searching(server, comp)) ELSE st.ev,
                   st.final)
    ELSE st

\* One ToolUseBlock of the first loop over message.content.
OnToolUse(st, name, cb) ==
    LET server == extract_server_from_tool_name(name) IN
    IF server # None /\ server # st.cur
    THEN LET comp == IF st.cur # None /\ ~InSeq(st.cur, st.comp)
                     THEN Append(st.comp, st.cur) ELSE st.comp
         IN Locals(server, comp,
                   IF cb THEN Append(st.ev, Searching(server, comp)) ELSE st.ev,
                   st.final)
    ELSE st

\* OnText capturing the text only on the branch that notifies the callback.
OnText_AnswerOnlyNotified(st, text, cb) ==
    IF cb /\ st.cur # None
    THEN LET comp == IF ~InSeq(st.cur, st.comp)
                     THEN Append(st.comp, st.cur) ELSE st.comp
         IN Locals(st.cur, comp, Append(st.ev, Consolidating(comp)), text)
    ELSE st

\* One TextBlock of the second loop over message.content.
OnText(st, text, cb) ==
    IF cb /\ st.cur # None
    THEN LET comp == IF ~InSeq(st.cur, st.comp)
                     THEN Append(st.comp, st.cur) ELSE st.comp
         IN Locals(st.cur, comp, Append(st.ev, Consolidating(comp)), text)
    ELSE Locals(st.cur, st.comp, st.ev, text)

RECURSIVE ToolLoop(_, _, _)
ToolLoop(st, content, cb) ==
    IF content = <<>> THEN st
    ELSE LET block == Head(content) IN
         ToolLoop(IF block.type = "ToolUse" THEN OnToolUse(st, block.arg, cb)
                  ELSE st,
                  Tail(content), cb)

RECURSIVE TextLoop(_, _, _)
TextLoop(st, content, cb) ==
    IF content = <<>> THEN st
    ELSE LET block == Head(content) IN
         TextLoop(IF block.type = "Text" THEN OnText(st, block.arg, cb) ELSE st,
                  Tail(content), cb)

\* The body of "async for message in query(...)" for one message.
OnMessage(st, message, cb) ==
    LET afterTools == IF message.kind = "Assistant"
                      THEN ToolLoop(st, message.content, cb) ELSE st
    IN IF message.kind \in {"Assistant", "Result"}
       THEN TextLoop(afterTools, message.content, cb) ELSE afterTools

\* ReturnValue without the fallback to the placeholder.
ReturnValue_NoPlaceholder(final) == final

\* return final_response or "검색 결과를 찾지 못했습니다."
ReturnValue(final) == IF final = <<>> THEN NO_RESULTS ELSE final


(***************************************************************************)
(* The form of the stream consumed so far, for the scenario "tools of a    *)
(* source a, then tools of another source b, then the answer text in a     *)
(* later message".  It reads the messages only, never the locals of        *)
(* search.  Phases: start, A (tools of a seen), AB (then tools of b), ABT   *)
(* (then a message holding one text block and no tool), off (anything      *)
(* else).                                                                  *)
(***************************************************************************)
Shape(phase, a, b) == [phase |-> phase, a |-> a, b |-> b]
ShapeStart == Shape("start", None, None)
ShapeOff == Shape("off", None, None)

ShapeTool(sh, server) ==
    CASE server = None -> ShapeOff
      [] sh.phase = "start" -> Shape("A", server, None)
      [] sh.phase = "A" -> IF server = sh.a THEN sh ELSE Shape("AB", sh.a, server)
      [] sh.phase = "AB" -> IF server = sh.b THEN sh ELSE ShapeOff
      [] OTHER -> ShapeOff

RECURSIVE ShapeTools(_, _)
ShapeTools(sh, content) ==
    IF content = <<>> THEN sh
    ELSE LET block == Head(content) IN
         ShapeTools(IF block.type = "ToolUse"
                    THEN ShapeTool(sh, extract_server_from_tool_name(block.arg))
                    ELSE sh,
                    Tail(content))

NumBlocks(content, type) == Cardinality({i \in 1..Len(content) : content[i].type = type})

ShapeAfter(sh, message) ==
    LET tools == IF message.kind = "Assistant"
                 THEN NumBlocks(message.content, "ToolUse") ELSE 0
        texts == IF message.kind \in {"Assistant", "Result"}
                 THEN NumBlocks(message.content, "Text") ELSE 0
    IN CASE tools = 0 /\ texts = 0 -> sh
         [] sh.phase \in {"off", "ABT"} -> ShapeOff
         [] texts > 0 -> IF sh.phase = "AB" /\ tools = 0 /\ texts = 1
                         THEN Shape("ABT", sh.a, sh.b) ELSE ShapeOff
         [] OTHER -> ShapeTools(sh, message.content)

\* The text blocks of the messages search reads text from (assistant and
\* result messages): whether one was read (seen), whether a non-empty one was
\* (any), and the last one in stream order (text).
NoText == [seen |-> FALSE, any |-> FALSE, text |-> <<>>]
LastTextAfter(last, message) ==
    LET idx == IF message.kind \in {"Assistant", "Result"}
               THEN {i \in 1..Len(message.content) : message.content[i].type = "Text"}
               ELSE {}
    IN IF idx = {} THEN last
       ELSE [seen |-> TRUE,
             any |-> last.any \/ \E i \in idx : message.content[i].arg # <<>>,
             text |-> message.content[CHOOSE i \in idx : \A j \in idx : j <= i].arg]

(***************************************************************************)
(* handle_mention of the agent-driven bot                                  *)
(***************************************************************************)
\* event["text"] as text.split(): the first word is the bot mention.
MentionTexts == { <<>>, <<"@eagleeye">>, <<"@eagleeye", "deploy">> }
Channels == { "", "C1" }

\* " ".join(text.split()[1:]).strip()
QueryOf(words) == IF words = <<>> THEN <<>> ELSE Tail(words)

\* response.startswith("__ERROR__:")
IsErrorResponse(response) == Len(response) >= 1 /\ response[1] = ERROR_PREFIX

\* The final payload: format_error_response(response[len("__ERROR__:"):]) or
\* format_search_response(response).
Render(response) ==
    IF IsErrorResponse(response)
    THEN [kind |-> "error", body |-> Tail(response)]
    ELSE [kind |-> "answer", body |-> response]

NoPayload == [kind |-> "none", body |-> <<>>]
NoResult == [kind |-> "none", value |-> <<>>]

\* _run_claude_search / _run_claude_search_with_progress: the value of
\* search, or f"__ERROR__:{e!s}" when it raised.
RunClaudeSearch(result) ==
    IF result.kind = "raised" THEN <<ERROR_PREFIX>> \o result.value
    ELSE result.value

\* _update_message when the loading message was posted, say otherwise.
Deliver(ts, channel) == IF ts # "" /\ channel # "" THEN "update" ELSE "say"

AgentInit ==
    /\ pc = "idle"
    /\ channel_id = ""
    /\ message_ts = ""
    /\ on_progress = FALSE
    /\ events = <<>>
    /\ current_server = None
    /\ completed_servers = <<>>
    /\ final_response = <<>>
    /\ turn_count = 0
    /\ search_result = NoResult
    /\ final_payload = NoPayload
    /\ delivery = "none"
    /\ stream_end = NoResult
    /\ last_text = NoText
    /\ shape = ShapeStart

\* handle_mention up to the first message of the stream: the help reply for
\* an empty query; otherwise the loading message (chat_postMessage may fail
\* with SlackApiError) and the start of search, which emits "thinking".
HandleMention(words, channel, posted) ==
    /\ pc = "idle"
    /\ channel_id' = channel
    /\ IF QueryOf(words) = <<>>
       THEN /\ pc' = "done"
            /\ delivery' = "help"
            /\ UNCHANGED <<message_ts, on_progress, events>>
       ELSE /\ pc' = "streaming"
            /\ message_ts' = IF posted THEN "ts" ELSE ""
            /\ on_progress' = (message_ts' # "" /\ channel # "")
            /\ events' = IF on_progress' THEN <<Thinking>> ELSE <<>>
            /\ UNCHANGED delivery
    /\ UNCHANGED <<current_server, completed_servers, final_response, turn_count,
                   search_result, final_payload, stream_end, last_text, shape>>
    /\ UNCHANGED <<unifiedVars, adapterVars, filterVars, slackVars, handlerVars,
                   repeatVars, stepVars, twinVars, clientVars, loopVars,
                   deliveryVars>>

\* The stream delivers one message.
StreamMessage(message) ==
    /\ pc = "streaming"
    /\ turn_count < MaxMessages
    /\ LET st == OnMessage(Locals(current_server, completed_servers, events,
                                  final_response), message, on_progress)
       IN /\ current_server' = st.cur
          /\ completed_servers' = st.comp
          /\ events' = st.ev
          /\ final_response' = st.final
    /\ turn_count' = turn_count + 1
    /\ shape' = ShapeAfter(shape, message)
    /\ last_text' = LastTextAfter(last_text, message)
    /\ UNCHANGED <<pc, channel_id, message_ts, on_progress, search_result,
                   final_payload, delivery, stream_end>>
    /\ UNCHANGED <<unifiedVars, adapterVars, filterVars, slackVars, handlerVars,
                   repeatVars, stepVars, twinVars, clientVars, loopVars,
                   deliveryVars>>

\* What search does when the stream ends.
SearchReturn(final) == [kind |-> "returned", value |-> ReturnValue(final)]

\* SearchRaise with the exception swallowed and the placeholder returned.
SearchRaise_Swallow(e) == [kind |-> "returned", value |-> NO_RESULTS]

\* What search does when the stream raises e: the except clause logs and
\* re-raises.
SearchRaise(e) == [kind |-> "raised", value |-> e]

\* The rest of handle_mention once search is over.
Finish(result) ==
    /\ pc' = "done"
    /\ search_result' = result
    /\ final_payload' = Render(RunClaudeSearch(result))
    /\ delivery' = Deliver(message_ts, channel_id)
    /\ UNCHANGED <<channel_id, message_ts, on_progress, events, current_server,
                   completed_servers, final_response, turn_count, last_text,
                   shape>>
    /\ UNCHANGED <<unifiedVars, adapterVars, filterVars, slackVars, handlerVars,
                   repeatVars, stepVars, twinVars, clientVars, loopVars,
                   deliveryVars>>

\* The stream ends.
StreamEnd ==
    /\ pc = "streaming"
    /\ stream_end' = [kind |-> "ended", value |-> <<>>]
    /\ Finish(SearchReturn(final_response))

\* The stream raises.
StreamRaise(e) ==
    /\ pc = "streaming"
    /\ stream_end' = [kind |-> "raised", value |-> e]
    /\ Finish(SearchRaise(e))

Next ==
    \/ \E words \in MentionTexts, channel \in Channels, posted \in BOOLEAN :
         HandleMention(words, channel, posted)
    \/ \E message \in Messages : StreamMessage(message)
    \/ StreamEnd
    \/ \E e \in Errors : StreamRaise(e)

(***************************************************************************)
(* _unified_search of the thread-pool bot                                  *)
(***************************************************************************)
\* The sources that have an adapter: slack_client, notion_client,
\* linear_client, in the order the tasks are built.
AllSources == {"slack", "notion", "linear"}

\* The sources argument: None, or a set of names (parse_query yields the
\* three flags; any other name has no adapter).
NoSources == [given |-> FALSE, set |-> {}]
SourceArgs == {NoSources}
              \cup {[given |-> TRUE, set |-> S] : S \in SUBSET AllSources}
              \cup {[given |-> TRUE, set |-> {"github"}]}
Queries == {"q1", "q2"}
Limits == 1..MaxLimit

NoCall == [query |-> None, limit |-> 0, sources |-> NoSources]

\* A SearchResult of a source, identified by its position in the adapter's list.
Result(source, n) == [source |-> source, n |-> n]
ResultList(source, k) == [i \in 1..k |-> Result(source, i)]

NoOutcome == [kind |-> "none", items |-> <<>>]
Outcomes(source) ==
    {[kind |-> "returned", items |-> ResultList(source, k)] : k \in 0..MaxResults}
    \cup {[kind |-> "raised", items |-> <<>>]}

\* ActiveSources reading only None, not the empty set, as "all".
ActiveSources_NoneOnly(sources) ==
    IF sources.given THEN sources.set ELSE AllSources

\* active_sources = sources if sources else {"slack", "notion", "linear"}
ActiveSources(sources) ==
    IF sources.given /\ sources.set # {} THEN sources.set ELSE AllSources

\* search_tasks: one entry per active source that has a client.
SearchTasks(sources) == {s \in AllSources : s \in ActiveSources(sources)}

\* SubmitArgs passing the adapters' default limit instead of the caller's.
SubmitArgs_DefaultLimit(c) == <<c.query, 5>>

\* executor.submit(client.search, query, limit)
SubmitArgs(c) == <<c.query, c.limit>>

\* MaxWorkers with a pool of a single worker.
MaxWorkers_Single(sources) == 1

\* ThreadPoolExecutor(max_workers=len(search_tasks))
MaxWorkers(sources) == Cardinality(SearchTasks(sources))

\* OnFuture putting the results of the source after the first result of the
\* list instead of at its end.
OnFuture_Interleaved(res, out) ==
    IF out.kind = "raised" THEN [upc |-> "collecting", results |-> res]
    ELSE [upc |-> "collecting",
          results |-> IF res = <<>> THEN out.items
                      ELSE <<Head(res)>> \o out.items \o Tail(res)]

\* OnFuture without the try/except around future.result().
OnFuture_NoExcept(res, out) ==
    IF out.kind = "raised" THEN [upc |-> "raised", results |-> res]
    ELSE [upc |-> "collecting", results |-> res \o out.items]

\* The body of "for future in as_completed(futures)": extend the results, or
\* log the failure of the source and go on.
OnFuture(res, out) ==
    IF out.kind = "raised" THEN [upc |-> "collecting", results |-> res]
    ELSE [upc |-> "collecting", results |-> res \o out.items]

UnifiedInit ==
    /\ upc = "idle"
    /\ call = NoCall
    /\ futures = [s \in AllSources |-> "none"]
    /\ outcome = [s \in AllSources |-> NoOutcome]
    /\ consumed = {}
    /\ invoked = [s \in AllSources |-> <<>>]
    /\ results = <<>>

\* _unified_search(query, limit, sources) up to the submission of the tasks;
\* with no task it returns the empty results at once.
UnifiedSearch(query, limit, sources) ==
    /\ upc = "idle"
    /\ call' = [query |-> query, limit |-> limit, sources |-> sources]
    /\ futures' = [s \in AllSources |->
                    IF s \in SearchTasks(sources) THEN "pending" ELSE "none"]
    /\ upc' = IF SearchTasks(sources) = {} THEN "done" ELSE "collecting"
    /\ UNCHANGED <<outcome, consumed, invoked, results>>
    /\ UNCHANGED <<agentVars, adapterVars, filterVars, slackVars, handlerVars,
                   repeatVars, stepVars, twinVars, clientVars, loopVars,
                   deliveryVars>>

\* A worker thread takes a submitted task and calls client.search.
TaskStart(s) ==
    /\ upc = "collecting"
    /\ futures[s] = "pending"
    /\ Cardinality({t \in AllSources : futures[t] = "running"})
         < MaxWorkers(call.sources)
    /\ futures' = [futures EXCEPT ![s] = "running"]
    /\ invoked' = [invoked EXCEPT ![s] = Append(@, SubmitArgs(call))]
    /\ UNCHANGED <<upc, call, outcome, consumed, results>>
    /\ UNCHANGED <<agentVars, adapterVars, filterVars, slackVars, handlerVars,
                   repeatVars, stepVars, twinVars, clientVars, loopVars,
                   deliveryVars>>

\* The adapter's search returns or raises; the future is done.
TaskFinish(s, out) ==
    /\ upc = "collecting"
    /\ futures[s] = "running"
    /\ futures' = [futures EXCEPT ![s] = "finished"]
    /\ outcome' = [outcome EXCEPT ![s] = out]
    /\ UNCHANGED <<upc, call, consumed, invoked, results>>
    /\ UNCHANGED <<agentVars, adapterVars, filterVars, slackVars, handlerVars,
                   repeatVars, stepVars, twinVars, clientVars, loopVars,
                   deliveryVars>>

\* as_completed yields a finished future and the loop body handles it.
Collect(s) ==
    /\ upc = "collecting"
    /\ futures[s] = "finished"
    /\ s \notin consumed
    /\ consumed' = consumed \cup {s}
    /\ LET r == OnFuture(results, outcome[s])
       IN /\ upc' = r.upc
          /\ results' = r.results
    /\ UNCHANGED <<call, futures, outcome, invoked>>
    /\ UNCHANGED <<agentVars, adapterVars, filterVars, slackVars, handlerVars,
                   repeatVars, stepVars, twinVars, clientVars, loopVars,
                   deliveryVars>>

\* as_completed is exhausted: the pool shuts down and results is returned.
UnifiedReturn ==
    /\ upc = "collecting"
    /\ consumed = SearchTasks(call.sources)
    /\ upc' = "done"
    /\ UNCHANGED <<call, futures, outcome, consumed, invoked, results>>
    /\ UNCHANGED <<agentVars, adapterVars, filterVars, slackVars, handlerVars,
                   repeatVars, stepVars, twinVars, clientVars, loopVars,
                   deliveryVars>>

UnifiedNext ==
    \/ \E query \in Queries, limit \in Limits, sources \in SourceArgs :
         UnifiedSearch(query, limit, sources)
    \/ \E s \in AllSources : TaskStart(s)
    \/ \E s \in AllSources : \E out \in Outcomes(s) : TaskFinish(s, out)
    \/ \E s \in AllSources : Collect(s)
    \/ UnifiedReturn

(***************************************************************************)
(* The per-source searches: the adapters of eagleeye.integrations and the  *)
(* parsing of MCPSearchClient                                              *)
(***************************************************************************)
\* A raw item of a backend response: its position in the response, whether
\* mapping it succeeds (ok) and, for a Slack history message, whether its
\* text contains the query (match).
ItemLists == UNION { {f \in [1..n -> [id : 1..n, ok : BOOLEAN, match : BOOLEAN]] :
                        \A i \in 1..n : f[i].id = i} : n \in 0..MaxItems }

\* The backend call raises, or returns something that cannot be decoded or
\* lacks the expected structure, or returns a list of items.
Responses == {[kind |-> "raised", items |-> <<>>],
              [kind |-> "undecodable", items |-> <<>>]}
             \cup {[kind |-> "list", items |-> l] : l \in ItemLists}

Searches == {"slack", "notion", "linear", "mcp_slack", "mcp_notion"}
SourceOf(search) ==
    CASE search \in {"slack", "mcp_slack"} -> "slack"
      [] search \in {"notion", "mcp_notion"} -> "notion"
      [] OTHER -> "linear"

Returns(list) == [raised |-> FALSE, results |-> list]
Raises == [raised |-> TRUE, results |-> <<>>]

Take(list, n) == SubSeq(list, 1, IF n < Len(list) THEN n ELSE Len(list))

\* A for loop that maps the items into results inside one try block: the
\* first item whose mapping raises ends the loop, the results appended
\* before it stay.
RECURSIVE MapUntilRaise(_, _)
MapUntilRaise(source, items) ==
    IF items = <<>> \/ ~Head(items).ok THEN <<>>
    ELSE <<Result(source, Head(items).id)>> \o MapUntilRaise(source, Tail(items))

\* SlackSearchClient.search: search_messages, then messages[:limit] mapped,
\* all in one try; except Exception logs; results is returned.
SlackSearch(resp, limit) ==
    IF resp.kind # "list" THEN Returns(<<>>)
    ELSE Returns(MapUntilRaise("slack", Take(resp.items, limit)))

\* NotionSearchClient.search: client.search, then results[:limit] mapped,
\* all in one try.
NotionSearch(resp, limit) ==
    IF resp.kind # "list" THEN Returns(<<>>)
    ELSE Returns(MapUntilRaise("notion", Take(resp.items, limit)))

\* LinearSearch without the try/except around the request and the loop.
LinearSearch_NoTry(resp, limit) ==
    IF resp.kind # "list" THEN Raises
    ELSE IF \E i \in 1..Len(Take(resp.items, limit)) : ~resp.items[i].ok THEN Raises
    ELSE Returns(MapUntilRaise("linear", Take(resp.items, limit)))

\* LinearClient.search: the POST, raise_for_status, json(), then
\* issues[:limit] mapped, all in one try.
LinearSearch(resp, limit) ==
    IF resp.kind # "list" THEN Returns(<<>>)
    ELSE Returns(MapUntilRaise("linear", Take(resp.items, limit)))

\* MCPSearchClient._parse_item: the SearchResult, or None when anything raises.
ParseItem(source, item) == IF item.ok THEN <<Result(source, item.id)>> ELSE <<>>

\* MCPSearchClient._parse_results for one TextContent: each item of a JSON
\* list parsed on its own; text that is not JSON becomes one plain-text result.
RECURSIVE ParseItems(_, _)
ParseItems(source, items) ==
    IF items = <<>> THEN <<>>
    ELSE ParseItem(source, Head(items)) \o ParseItems(source, Tail(items))

ParseResults(source, resp) ==
    IF resp.kind = "undecodable" THEN <<Result(source, 0)>>
    ELSE ParseItems(source, resp.items)

\* MCPSearchClient._search_source for a source with a search tool: call_tool
\* and _parse_results in one try; except Exception returns [].
SearchSource(source, resp) ==
    IF resp.kind = "raised" THEN Returns(<<>>)
    ELSE Returns(ParseResults(source, resp))

\* MCPSearchClient._parse_slack_history for one TextContent: the matching
\* messages; only JSONDecodeError is caught, a message whose text cannot be
\* read raises out of the function.
RECURSIVE MatchingMessages(_)
MatchingMessages(items) ==
    IF items = <<>> THEN <<>>
    ELSE (IF Head(items).match THEN <<Result("slack", Head(items).id)>> ELSE <<>>)
         \o MatchingMessages(Tail(items))

ParseSlackHistory(resp) ==
    IF resp.kind = "undecodable" THEN Returns(<<>>)
    ELSE IF \E i \in 1..Len(resp.items) : ~resp.items[i].ok THEN Raises
    ELSE Returns(MatchingMessages(resp.items))

\* MCPSearchClient._search_slack for one channel: the history call and
\* _parse_slack_history inside the per-channel try, whose except skips the
\* channel; results[:limit] is returned.
SearchSlackChannel(resp, limit) ==
    IF resp.kind = "raised" THEN Returns(<<>>)
    ELSE LET parsed == ParseSlackHistory(resp)
         IN IF parsed.raised THEN Returns(<<>>)
            ELSE Returns(Take(parsed.results, limit))

RunSearch(search, resp, limit) ==
    CASE search = "slack" -> SlackSearch(resp, limit)
      [] search = "notion" -> NotionSearch(resp, limit)
      [] search = "linear" -> LinearSearch(resp, limit)
      [] search = "mcp_slack" -> SearchSlackChannel(resp, limit)
      [] search = "mcp_notion" -> SearchSource("notion", resp)

NoBackend == [search |-> None, limit |-> 0, resp |-> [kind |-> "none", items |-> <<>>]]

AdapterInit ==
    /\ apc = "idle"
    /\ backend = NoBackend
    /\ adapter_out = Returns(<<>>)

\* One search(query, limit) against a backend that answers resp.
AdapterSearch(search, resp, limit) ==
    /\ apc = "idle"
    /\ apc' = "done"
    /\ backend' = [search |-> search, limit |-> limit, resp |-> resp]
    /\ adapter_out' = RunSearch(search, resp, limit)
    /\ UNCHANGED <<agentVars, unifiedVars, filterVars, slackVars, handlerVars,
                   repeatVars, stepVars, twinVars, clientVars, loopVars,
                   deliveryVars>>

AdapterNext ==
    \E search \in Searches, resp \in Responses, limit \in 1..MaxItems :
        AdapterSearch(search, resp, limit)

(***************************************************************************)
(* ClaudeSearchAgent: the configured servers, the allowed tools and the    *)
(* query-based filter                                                      *)
(*                                                                         *)
(* A query and a keyword are sequences of characters; a Korean syllable is *)
(* one character, written "k_" and its romanisation.                       *)
(***************************************************************************)
Servers == {"slack", "notion", "linear", "github"}

\* What create_mcp_server_configs and _build_allowed_tools read of the
\* settings: the sources whose enable_*_mcp flag is set, and the sources
\* whose credential (slack_bot_token, notion_api_key, linear_api_key,
\* github_token) is a non-empty string.
SettingsSpace == [enable : SUBSET Servers, credential : SUBSET Servers]

\* The keys of the dictionary create_mcp_server_configs returns.
create_mcp_server_configs(s) ==
    {x \in {"slack", "notion", "linear"} : x \in s.enable}
    \cup (IF "github" \in s.enable /\ "github" \in s.credential
          THEN {"github"} ELSE {})

Tool(server, name) == <<"mcp", server, name>>

SlackTools == << Tool("slack", "slack_list_channels"),
                 Tool("slack", "slack_get_channel_history"),
                 Tool("slack", "slack_get_thread_replies") >>
NotionTools == << Tool("notion", "API-post-search"),
                  Tool("notion", "API-retrieve-a-page"),
                  Tool("notion", "API-get-block-children") >>
LinearTools == << Tool("linear", "linear_searchIssues"),
                  Tool("linear", "linear_getIssueById"),
                  Tool("linear", "linear_getIssues") >>
GithubTools == << Tool("github", "search_repositories"),
                  Tool("github", "search_code"),
                  Tool("github", "search_issues"),
                  Tool("github", "get_file_contents"),
                  Tool("github", "list_commits"),
                  Tool("github", "get_issue"),
                  Tool("github", "get_pull_request"),
                  Tool("github", "list_issues"),
                  Tool("github", "list_pull_requests") >>

\* build_allowed_tools adding the GitHub tools on the enable flag alone.
build_allowed_tools_GithubOnFlag(s) ==
    (IF "slack" \in s.enable THEN SlackTools ELSE <<>>)
    \o (IF "notion" \in s.enable THEN NotionTools ELSE <<>>)
    \o (IF "linear" \in s.enable THEN LinearTools ELSE <<>>)
    \o (IF "github" \in s.enable THEN GithubTools ELSE <<>>)

\* ClaudeSearchAgent._build_allowed_tools
build_allowed_tools(s) ==
    (IF "slack" \in s.enable THEN SlackTools ELSE <<>>)
    \o (IF "notion" \in s.enable THEN NotionTools ELSE <<>>)
    \o (IF "linear" \in s.enable THEN LinearTools ELSE <<>>)
    \o (IF "github" \in s.enable /\ "github" \in s.credential
        THEN GithubTools ELSE <<>>)

\* The trigger keywords of each server.
SERVER_KEYWORDS ==
    [slack |->
        {<<"s", "l", "a", "c", "k">>, <<"k_chae", "k_neol">>,
         <<"c", "h", "a", "n", "n", "e", "l">>, <<"k_me", "k_si", "k_ji">>,
         <<"m", "e", "s", "s", "a", "g", "e">>, <<"k_dae", "k_hwa">>,
         <<"c", "o", "n", "v", "e", "r", "s", "a", "t", "i", "o", "n">>},
     notion |->
        {<<"n", "o", "t", "i", "o", "n">>, <<"k_no", "k_syeon">>,
         <<"k_mun", "k_seo">>, <<"d", "o", "c", "u", "m", "e", "n", "t">>,
         <<"k_pe", "k_i", "k_ji">>, <<"p", "a", "g", "e">>,
         <<"w", "i", "k", "i">>},
     linear |->
        {<<"l", "i", "n", "e", "a", "r">>, <<"k_ri", "k_ni", "k_eo">>,
         <<"k_i", "k_syu">>, <<"i", "s", "s", "u", "e">>,
         <<"k_ti", "k_ket">>, <<"t", "i", "c", "k", "e", "t">>,
         <<"k_beo", "k_geu">>, <<"b", "u", "g">>,
         <<"k_tae", "k_seu", "k_keu">>, <<"t", "a", "s", "k">>},
     github |->
        {<<"g", "i", "t", "h", "u", "b">>, <<"k_git", "k_heo", "k_beu">>,
         <<"k_ko", "k_deu">>, <<"c", "o", "d", "e">>, <<"p", "r">>,
         <<"p", "u", "l", "l", " ", "r", "e", "q", "u", "e", "s", "t">>,
         <<"k_keo", "k_mit">>, <<"c", "o", "m", "m", "i", "t">>,
         <<"k_re", "k_po">>, <<"r", "e", "p", "o">>}]

\* str.lower(), on the characters the queries use.
UpperCase == <<"A", "B", "C", "D", "E", "F", "G", "H", "I", "J", "K", "L", "M",
               "N", "O", "P", "Q", "R", "S", "T", "U", "V", "W", "X", "Y", "Z">>
LowerCase == <<"a", "b", "c", "d", "e", "f", "g", "h", "i", "j", "k", "l", "m",
               "n", "o", "p", "q", "r", "s", "t", "u", "v", "w", "x", "y", "z">>
LowerChar(c) ==
    IF \E i \in 1..Len(UpperCase) : UpperCase[i] = c
    THEN LowerCase[CHOOSE i \in 1..Len(UpperCase) : UpperCase[i] = c]
    ELSE c
Lower(str) == [i \in 1..Len(str) |-> LowerChar(str[i])]

StartsWith(str, prefix) ==
    Len(prefix) <= Len(str) /\ SubSeq(str, 1, Len(prefix)) = prefix

\* keyword in query_lower: the keyword starts at some position of the text.
RECURSIVE Contains(_, _)
Contains(str, keyword) ==
    IF Len(str) < Len(keyword) THEN FALSE
    ELSE StartsWith(str, keyword) \/ Contains(Tail(str), keyword)

\* detect_relevant_servers comparing the keywords with the query as typed.
detect_relevant_servers_NoLower(query) ==
    LET relevant == {server \in DOMAIN SERVER_KEYWORDS :
                        \E keyword \in SERVER_KEYWORDS[server] :
                            Contains(query, keyword)}
    IN IF relevant = {} THEN DOMAIN SERVER_KEYWORDS ELSE relevant

\* detect_relevant_servers: the servers one of whose keywords is in the
\* lower-cased query; every server of the table when there is none.
detect_relevant_servers(query) ==
    LET query_lower == Lower(query)
        relevant == {server \in DOMAIN SERVER_KEYWORDS :
                        \E keyword \in SERVER_KEYWORDS[server] :
                            Contains(query_lower, keyword)}
    IN IF relevant = {} THEN DOMAIN SERVER_KEYWORDS ELSE relevant

\* ClaudeSearchAgent._filter_servers_for_query: the configured servers and
\* the allowed tools whose server is relevant to the query.
filter_servers_for_query(servers, tools, query) ==
    LET relevant == detect_relevant_servers(query) IN
    [relevant |-> relevant,
     servers |-> {name \in servers : name \in relevant},
     tools |-> SelectSeq(tools,
                 LAMBDA tool : extract_server_from_tool_name(tool) \in relevant)]

\* The queries: "SLACK", "Find PR", "express", "deploy", "wiki page",
\* "bug in repo", "메시지 검색", "오늘 회의".
UserQueries ==
    {<<"S", "L", "A", "C", "K">>,
     <<"F", "i", "n", "d", " ", "P", "R">>,
     <<"e", "x", "p", "r", "e", "s", "s">>,
     <<"d", "e", "p", "l", "o", "y">>,
     <<"w", "i", "k", "i", " ", "p", "a", "g", "e">>,
     <<"b", "u", "g", " ", "i", "n", " ", "r", "e", "p", "o">>,
     <<"k_me", "k_si", "k_ji", " ", "k_geom", "k_saek">>,
     <<"k_o", "k_neul", " ", "k_hoe", "k_ui">>}

NoSettings == [enable |-> {}, credential |-> {}]
NoFiltered == [relevant |-> {}, servers |-> {}, tools |-> <<>>]

FilterInit ==
    /\ fpc = "idle"
    /\ settings = NoSettings
    /\ mcp_servers = {}
    /\ allowed_tools = <<>>
    /\ user_query = <<>>
    /\ filtered = NoFiltered

\* ClaudeSearchAgent.__init__
AgentConstruct(s) ==
    /\ fpc = "idle"
    /\ fpc' = "ready"
    /\ settings' = s
    /\ mcp_servers' = create_mcp_server_configs(s)
    /\ allowed_tools' = build_allowed_tools(s)
    /\ UNCHANGED <<user_query, filtered>>
    /\ UNCHANGED <<agentVars, unifiedVars, adapterVars, slackVars, handlerVars,
                   repeatVars, stepVars, twinVars, clientVars, loopVars,
                   deliveryVars>>

\* search calls _filter_servers_for_query(user_query) before it starts the
\* agent.
FilterServers(query) ==
    /\ fpc = "ready"
    /\ fpc' = "filtered"
    /\ user_query' = query
    /\ filtered' = filter_servers_for_query(mcp_servers, allowed_tools, query)
    /\ UNCHANGED <<settings, mcp_servers, allowed_tools>>
    /\ UNCHANGED <<agentVars, unifiedVars, adapterVars, slackVars, handlerVars,
                   repeatVars, stepVars, twinVars, clientVars, loopVars,
                   deliveryVars>>

FilterNext ==
    \/ \E s \in SettingsSpace : AgentConstruct(s)
    \/ \E query \in UserQueries : FilterServers(query)

(***************************************************************************)
(* MCPSearchClient._search_slack: the channel list, then the history of    *)
(* the channels one by one                                                 *)
(***************************************************************************)
\* for channel in channels[:5]
ChannelCeiling == 5

\* The slack_list_channels call raises, or returns text that is not JSON
\* (no channel is parsed), or returns n channels; each channel is a
\* dictionary with its "id", and is named here by its position in the list.
ChannelLists == {[kind |-> "raised", n |-> 0], [kind |-> "undecodable", n |-> 0]}
                \cup {[kind |-> "list", n |-> k] : k \in 0..MaxChannels}

\* What a slack_get_channel_history call may answer: it raises, or returns
\* text that is not JSON, or the messages of the channel; a message whose
\* text cannot be read matches nothing.
Histories ==
    {r \in Responses :
        /\ Len(r.items) <= MaxHistory
        /\ \A i \in 1..Len(r.items) : ~r.items[i].ok => ~r.items[i].match}

\* The number of channels the loop goes through: channels[:5] of what
\* _parse_slack_channels returned; none when the list call raised.
LoopChannels(chans) ==
    IF chans.kind # "list" THEN 0
    ELSE IF chans.n < ChannelCeiling THEN chans.n ELSE ChannelCeiling

\* The SearchResult built from message item of channel c: match tells
\* whether its snippet, the text of the message, contains the query.
SlackMessage(c, item) ==
    [source |-> "slack", channel |-> c, n |-> item.id, match |-> item.match]

\* The results _parse_slack_history returned for channel c, as SearchResults
\* of that channel.
InChannel(c, resp, list) ==
    [i \in 1..Len(list) |-> SlackMessage(c, resp.items[list[i].n])]

ChannelStep(res, how, break) == [results |-> res, how |-> how, break |-> break]

\* OnHistory leaving the loop when a channel fails.
OnHistory_FailureStops(res, c, resp, limit) ==
    IF resp.kind = "raised" THEN ChannelStep(res, "call_failed", TRUE)
    ELSE LET parsed == ParseSlackHistory(resp) IN
         IF parsed.raised THEN ChannelStep(res, "parse_failed", TRUE)
         ELSE LET r == res \o InChannel(c, resp, parsed.results)
              IN ChannelStep(r, "ok", Len(r) >= limit)

\* The body of "for channel in channels[:5]" for channel c, whose history
\* call answers resp: the call and _parse_slack_history in one try; the
\* results extended and the loop left when they have reached limit; except
\* Exception logs a warning and the loop goes on.
OnHistory(res, c, resp, limit) ==
    IF resp.kind = "raised" THEN ChannelStep(res, "call_failed", FALSE)
    ELSE LET parsed == ParseSlackHistory(resp) IN
         IF parsed.raised THEN ChannelStep(res, "parse_failed", FALSE)
         ELSE LET r == res \o InChannel(c, resp, parsed.results)
              IN ChannelStep(r, "ok", Len(r) >= limit)

\* The messages of a history response whose text contains the query, as
\* SearchResults of channel c: what the response itself holds, whatever the
\* parsing does with it.
MatchesOf(c, resp) ==
    IF resp.kind # "list" THEN <<>>
    ELSE LET hits == SelectSeq(resp.items, LAMBDA item : item.ok /\ item.match)
         IN [i \in 1..Len(hits) |-> SlackMessage(c, hits[i])]

NoSlackCall == [limit |-> 0, channels |-> [kind |-> "none", n |-> 0], list_calls |-> 0]

SlackInit ==
    /\ spc = "idle"
    /\ slack_call = NoSlackCall
    /\ channel_pos = 0
    /\ slack_results = <<>>
    /\ fetched = <<>>
    /\ last_fetch = None
    /\ skipped = FALSE
    /\ expected = <<>>
    /\ slack_out = <<>>

\* _search_slack(connection, query, limit) up to the loop: the one
\* slack_list_channels call, answered chans.
SearchSlack(limit, chans) ==
    /\ spc = "idle"
    /\ slack_call' = [limit |-> limit, channels |-> chans, list_calls |-> 1]
    /\ channel_pos' = 1
    /\ spc' = IF LoopChannels(chans) = 0 THEN "return" ELSE "loop"
    /\ UNCHANGED <<slack_results, fetched, last_fetch, skipped, expected,
                   slack_out>>
    /\ UNCHANGED <<agentVars, unifiedVars, adapterVars, filterVars, handlerVars,
                   repeatVars, stepVars, twinVars, clientVars, loopVars,
                   deliveryVars>>

\* One turn of the loop: the history call of the channel at channel_pos,
\* answered resp.
FetchHistory(resp) ==
    /\ spc = "loop"
    /\ LET step == OnHistory(slack_results, channel_pos, resp, slack_call.limit)
       IN /\ slack_results' = step.results
          /\ last_fetch' = step.how
          /\ skipped' = (skipped \/ step.how # "ok")
          /\ spc' = IF step.break \/ channel_pos + 1 > LoopChannels(slack_call.channels)
                    THEN "return" ELSE "loop"
    /\ fetched' = Append(fetched, channel_pos)
    /\ expected' = Take(expected \o MatchesOf(channel_pos, resp), slack_call.limit)
    /\ channel_pos' = channel_pos + 1
    /\ UNCHANGED <<slack_call, slack_out>>
    /\ UNCHANGED <<agentVars, unifiedVars, adapterVars, filterVars, handlerVars,
                   repeatVars, stepVars, twinVars, clientVars, loopVars,
                   deliveryVars>>

\* return results[:limit]
SlackReturn ==
    /\ spc = "return"
    /\ spc' = "done"
    /\ slack_out' = Take(slack_results, slack_call.limit)
    /\ UNCHANGED <<slack_call, channel_pos, slack_results, fetched, last_fetch,
                   skipped, expected>>
    /\ UNCHANGED <<agentVars, unifiedVars, adapterVars, filterVars, handlerVars,
                   repeatVars, stepVars, twinVars, clientVars, loopVars,
                   deliveryVars>>

SlackNext ==
    \/ \E limit \in Limits, chans \in ChannelLists : SearchSlack(limit, chans)
    \/ \E resp \in Histories : FetchHistory(resp)
    \/ SlackReturn

(***************************************************************************)
(* The /search command and the mention handlers: what they do before any   *)
(* search starts                                                           *)
(*                                                                         *)
(* The text of a command or a mention is a sequence of atoms: a space, a   *)
(* word character, a dash, and the character runs "--slack", "--NOTION"    *)
(* and "--github".                                                         *)
(***************************************************************************)
\* The runs FILTER_FLAGS_PATTERN can match, one in lower and one in upper
\* case ("--linear" behaves as "--slack" does).
FlagAtoms == {"--slack", "--NOTION"}
Atoms == {" ", "a", "-", "--github"} \cup FlagAtoms
HandlerTexts == UNION {[1..n -> Atoms] : n \in 0..MaxAtoms}

\* flag.lstrip("-").lower()
FlagSource(atom) == IF atom = "--slack" THEN "slack" ELSE "notion"

\* FILTER_FLAGS_PATTERN matches at position 1: "--" and a source name in any
\* case, followed by a word boundary (the next character, if any, is not a
\* word character).
FlagAtHead(text) ==
    /\ text # <<>>
    /\ Head(text) \in FlagAtoms
    /\ Len(text) >= 2 => text[2] # "a"

\* FILTER_FLAGS_PATTERN.findall(text), as the sources the flags name.
RECURSIVE FlagSources(_)
FlagSources(text) ==
    IF text = <<>> THEN {}
    ELSE (IF FlagAtHead(text) THEN {FlagSource(Head(text))} ELSE {})
         \cup FlagSources(Tail(text))

\* FILTER_FLAGS_PATTERN.sub("", text)
RECURSIVE RemoveFlags(_)
RemoveFlags(text) ==
    IF text = <<>> THEN <<>>
    ELSE (IF FlagAtHead(text) THEN <<>> ELSE <<Head(text)>>)
         \o RemoveFlags(Tail(text))

\* str.strip()
RECURSIVE StripLeft(_)
StripLeft(text) ==
    IF text # <<>> /\ Head(text) = " " THEN StripLeft(Tail(text)) ELSE text
RECURSIVE StripRight(_)
StripRight(text) ==
    IF text # <<>> /\ text[Len(text)] = " "
    THEN StripRight(SubSeq(text, 1, Len(text) - 1)) ELSE text
Strip(text) == StripRight(StripLeft(text))

\* The first word of a text that starts with no space, and what follows it.
RECURSIVE FirstWord(_)
FirstWord(text) ==
    IF text = <<>> \/ Head(text) = " " THEN <<>>
    ELSE <<Head(text)>> \o FirstWord(Tail(text))
AfterFirstWord(text) == SubSeq(text, Len(FirstWord(text)) + 1, Len(text))

\* str.split(): the words, the maximal runs without a space.
RECURSIVE Split(_)
Split(text) ==
    LET t == StripLeft(text) IN
    IF t = <<>> THEN <<>>
    ELSE <<FirstWord(t)>> \o Split(AfterFirstWord(t))

\* " ".join(words)
RECURSIVE Join(_)
Join(words) ==
    IF words = <<>> THEN <<>>
    ELSE IF Len(words) = 1 THEN Head(words)
    ELSE Head(words) \o <<" ">> \o Join(Tail(words))

ParsedQuery(query, sources) == [query |-> query, sources |-> sources]

\* parse_query leaving the text as it is once the flags are removed.
parse_query_NoStrip(text) ==
    ParsedQuery(RemoveFlags(text), FlagSources(text))

\* EagleEyeBot.parse_query: the flags become sources; the query is the text
\* without them, stripped, its runs of spaces collapsed.
parse_query(text) ==
    ParsedQuery(Join(Split(Strip(RemoveFlags(text)))), FlagSources(text))

\* " ".join(text.split()[1:]).strip(): the text without its first word, the
\* bot mention.
MentionText(text) ==
    LET words == Split(text) IN
    Strip(Join(IF words = <<>> THEN <<>> ELSE Tail(words)))

NoSearch == [started |-> FALSE, query |-> <<>>, sources |-> {}]
Search(query, sources) == [started |-> TRUE, query |-> query, sources |-> sources]
Handled(reply, search) == [reply |-> reply, search |-> search]

\* handle_search_command of the thread-pool bot, up to _unified_search.
handle_search_command(text) ==
    LET raw_text == Strip(text) IN
    IF raw_text = <<>> THEN Handled("usage", NoSearch)
    ELSE LET parsed == parse_query(raw_text) IN
         IF parsed.query = <<>> THEN Handled("query_missing", NoSearch)
         ELSE Handled("searching", Search(parsed.query, parsed.sources))

\* handle_mention of the thread-pool bot, up to _unified_search.
handle_mention(text) ==
    LET raw_text == MentionText(text) IN
    IF raw_text = <<>> THEN Handled("usage", NoSearch)
    ELSE LET parsed == parse_query(raw_text) IN
         IF parsed.query = <<>> THEN Handled("query_missing", NoSearch)
         ELSE Handled("searching", Search(parsed.query, parsed.sources))

\* handle_mention of the agent-driven bot, up to the search of the agent:
\* the query is the text without the mention, no flag is parsed.
agent_handle_mention(text) ==
    LET query == MentionText(text) IN
    IF query = <<>> THEN Handled("help", NoSearch)
    ELSE Handled("searching", Search(query, {}))

NoHandled == [handler |-> None, text |-> <<>>, reply |-> None, search |-> NoSearch]

HandlerInit ==
    /\ hpc = "idle"
    /\ handled = NoHandled

Handle(handler, text, out) ==
    /\ hpc = "idle"
    /\ hpc' = "done"
    /\ handled' = [handler |-> handler, text |-> text, reply |-> out.reply,
                   search |-> out.search]
    /\ UNCHANGED <<agentVars, unifiedVars, adapterVars, filterVars, slackVars,
                   repeatVars, stepVars, twinVars, clientVars, loopVars,
                   deliveryVars>>

\* /search text
SearchCommand(text) == Handle("command", text, handle_search_command(text))

\* An app_mention event of the thread-pool bot.
PoolMention(text) == Handle("mention", text, handle_mention(text))

\* An app_mention event of the agent-driven bot.
AgentMention(text) == Handle("agent_mention", text, agent_handle_mention(text))

HandlerNext ==
    \/ \E text \in HandlerTexts : SearchCommand(text)
    \/ \E text \in HandlerTexts : PoolMention(text)
    \/ \E text \in HandlerTexts : AgentMention(text)

(***************************************************************************)
(* _unified_search called twice with the same arguments, against adapters  *)
(* that answer the second call as they answered the first                  *)
(***************************************************************************)
AdapterBehaviours ==
    {f \in [AllSources -> UNION {Outcomes(s) : s \in AllSources}] :
        \A s \in AllSources : f[s] \in Outcomes(s)}

NoResponses == [s \in AllSources |-> NoOutcome]
NoPrevious == [set |-> FALSE, by_source |-> [s \in AllSources |-> <<>>], len |-> 0]

\* The results of a list source by source, each in the order they stand in
\* the list: the list up to the order of the sources.
BySource(list) ==
    [s \in AllSources |-> SelectSeq(list, LAMBDA r : r.source = s)]

\* InitialResults starting from what the call before left in results.
InitialResults_Kept(left) == left

\* results: list[SearchResult] = []: a new list at every call, whatever the
\* call before left.
InitialResults(left) == <<>>

RepeatInit ==
    /\ responses = NoResponses
    /\ previous = NoPrevious

\* The backends are in some state, which fixes what each adapter's search
\* does.
FixResponses(resp) ==
    /\ upc = "idle"
    /\ responses = NoResponses
    /\ responses' = resp
    /\ UNCHANGED previous
    /\ UNCHANGED <<agentVars, unifiedVars, adapterVars, filterVars, slackVars,
                   handlerVars, stepVars, twinVars, clientVars, loopVars,
                   deliveryVars>>

\* The first call.
FirstSearch(query, limit, sources) ==
    /\ responses # NoResponses
    /\ UnifiedSearch(query, limit, sources)

\* The adapter of s answers as the state of its backend has it.
AdapterAnswers(s) == TaskFinish(s, responses[s])

\* The first call has returned; _unified_search is called again with the
\* same arguments: new results, new executor, new futures.
SearchAgain ==
    /\ upc = "done"
    /\ responses # NoResponses
    /\ ~previous.set
    /\ previous' = [set |-> TRUE,
                    by_source |-> BySource(results),
                    len |-> Len(results)]
    /\ results' = InitialResults(results)
    /\ futures' = [s \in AllSources |->
                    IF s \in SearchTasks(call.sources) THEN "pending" ELSE "none"]
    /\ outcome' = [s \in AllSources |-> NoOutcome]
    /\ consumed' = {}
    /\ upc' = IF SearchTasks(call.sources) = {} THEN "done" ELSE "collecting"
    /\ UNCHANGED <<call, invoked, responses>>
    /\ UNCHANGED <<agentVars, adapterVars, filterVars, slackVars, handlerVars,
                   stepVars, twinVars, clientVars, loopVars, deliveryVars>>

RepeatNext ==
    \/ \E resp \in AdapterBehaviours : FixResponses(resp)
    \/ \E query \in Queries, limit \in Limits, sources \in SourceArgs :
         FirstSearch(query, limit, sources)
    \/ \E s \in AllSources : TaskStart(s)
    \/ \E s \in AllSources : AdapterAnswers(s)
    \/ \E s \in AllSources : Collect(s)
    \/ UnifiedReturn
    \/ SearchAgain

(***************************************************************************)
(* One tool invocation observed by search, in any state its locals can be  *)
(* in when the block is read                                               *)
(***************************************************************************)
\* The servers a tool name may name, and the names observed: tools of three
\* servers, a built-in tool, and a name that stops after the server segment.
StepServers == {"slack", "notion", "linear"}
ObservedToolNames ==
    ToolNames \cup { Tool("slack", "slack_get_channel_history"),
                     Tool("linear", "linear_searchIssues"),
                     <<"mcp", "slack">> }

\* completed_servers holds no server twice.
Orders(S) ==
    {o \in UNION {[1..n -> S] : n \in 0..Cardinality(S)} :
        \A i, j \in 1..Len(o) : i # j => o[i] # o[j]}

\* The locals when a block is read: before any server was named nothing is
\* completed; afterwards completed_servers is any duplicate-free list (the
\* servers left, in the order they were left, and the active one too once a
\* text block was read or the agent returned to it).  The events are the
\* thinking event when there is a callback.
StepLocals(cb) ==
    {Locals(None, <<>>, IF cb THEN <<Thinking>> ELSE <<>>, <<>>)}
    \cup {Locals(cur, comp, IF cb THEN <<Thinking>> ELSE <<>>, <<>>) :
            cur \in StepServers, comp \in Orders(StepServers)}

NoStep == [done |-> FALSE]

StepInit == tool_step = NoStep

\* The first loop over message.content reads one ToolUseBlock.
ObserveToolUse(st, name, cb) ==
    /\ tool_step = NoStep
    /\ tool_step' = [done |-> TRUE, before |-> st, name |-> name,
                     callback |-> cb, after |-> OnToolUse(st, name, cb)]
    /\ UNCHANGED <<agentVars, unifiedVars, adapterVars, filterVars, slackVars,
                   handlerVars, repeatVars, twinVars, clientVars, loopVars,
                   deliveryVars>>

StepNext ==
    \E cb \in BOOLEAN : \E st \in StepLocals(cb), name \in ObservedToolNames :
        ObserveToolUse(st, name, cb)

(***************************************************************************)
(* search run on one stream with a progress callback and without one       *)
(***************************************************************************)
NoLocals == Locals(None, <<>>, <<>>, <<>>)
NoOutcomes == [notified |-> NoResult, silent |-> NoResult]

TwinInit ==
    /\ tpc = "idle"
    /\ notified = NoLocals
    /\ silent = NoLocals
    /\ twin_turns = 0
    /\ twin_out = NoOutcomes

\* Both runs start: the one with a callback emits "thinking".
TwinSearch ==
    /\ tpc = "idle"
    /\ tpc' = "streaming"
    /\ notified' = Locals(None, <<>>, <<Thinking>>, <<>>)
    /\ silent' = NoLocals
    /\ UNCHANGED <<twin_turns, twin_out>>
    /\ UNCHANGED <<agentVars, unifiedVars, adapterVars, filterVars, slackVars,
                   handlerVars, repeatVars, stepVars, clientVars, loopVars,
                   deliveryVars>>

\* The stream delivers the same message to both runs.
TwinMessage(message) ==
    /\ tpc = "streaming"
    /\ twin_turns < MaxMessages
    /\ notified' = OnMessage(notified, message, TRUE)
    /\ silent' = OnMessage(silent, message, FALSE)
    /\ twin_turns' = twin_turns + 1
    /\ UNCHANGED <<tpc, twin_out>>
    /\ UNCHANGED <<agentVars, unifiedVars, adapterVars, filterVars, slackVars,
                   handlerVars, repeatVars, stepVars, clientVars, loopVars,
                   deliveryVars>>

\* The stream ends for both runs.
TwinEnd ==
    /\ tpc = "streaming"
    /\ tpc' = "done"
    /\ twin_out' = [notified |-> SearchReturn(notified.final),
                    silent |-> SearchReturn(silent.final)]
    /\ UNCHANGED <<notified, silent, twin_turns>>
    /\ UNCHANGED <<agentVars, unifiedVars, adapterVars, filterVars, slackVars,
                   handlerVars, repeatVars, stepVars, clientVars, loopVars,
                   deliveryVars>>

\* The stream raises e in both runs.
TwinRaise(e) ==
    /\ tpc = "streaming"
    /\ tpc' = "done"
    /\ twin_out' = [notified |-> SearchRaise(e), silent |-> SearchRaise(e)]
    /\ UNCHANGED <<notified, silent, twin_turns>>
    /\ UNCHANGED <<agentVars, unifiedVars, adapterVars, filterVars, slackVars,
                   handlerVars, repeatVars, stepVars, clientVars, loopVars,
                   deliveryVars>>

TwinNext ==
    \/ TwinSearch
    \/ \E message \in Messages : TwinMessage(message)
    \/ TwinEnd
    \/ \E e \in Errors : TwinRaise(e)

(***************************************************************************)
(* MCPSearchClient: connect_all, search and disconnect_all against servers *)
(* that may refuse the connection                                          *)
(***************************************************************************)
\* The values of ServerType.
ServerTypes == {"slack", "notion", "linear"}

NoSearchOut == [done |-> FALSE, results |-> <<>>, raised |-> FALSE,
                answers |-> [s \in ServerTypes |-> NoOutcome]]

ClientInit ==
    /\ mpc = "new"
    /\ configs = {}
    /\ connections = {}
    /\ connected = FALSE
    /\ up = {}
    /\ connect_up = {}
    /\ attempts = [s \in ServerTypes |-> 0]
    /\ connects = 0
    /\ searches = 0
    /\ search_out = NoSearchOut

\* ConnectedAfter marking the client connected only when every server did
\* connect.
ConnectedAfter_OnlyIfAll(cfgs, conns) == conns = cfgs

\* self._connected = True, after the loop, whatever the loop did.
ConnectedAfter(cfgs, conns) == TRUE

\* connect_all: each configured server is tried in its own try/except; the
\* connection is stored when connect() returned.
connect_all(st) ==
    LET conns == st.connections \cup (st.configs \cap st.up) IN
    [st EXCEPT !.connections = conns,
               !.connected = ConnectedAfter(st.configs, conns),
               !.connect_up = st.up,
               !.attempts = [s \in ServerTypes |->
                               IF s \in st.configs THEN st.attempts[s] + 1
                               ELSE st.attempts[s]],
               !.connects = st.connects + 1]

\* The fields of the client together with the servers that accept a
\* connection now.
Client ==
    [configs |-> configs, connections |-> connections, connected |-> connected,
     up |-> up, connect_up |-> connect_up, attempts |-> attempts,
     connects |-> connects]

SetClient(st) ==
    /\ configs' = st.configs
    /\ connections' = st.connections
    /\ connected' = st.connected
    /\ up' = st.up
    /\ connect_up' = st.connect_up
    /\ attempts' = st.attempts
    /\ connects' = st.connects

\* The tasks of search: one per active source that names a server type and
\* has a connection, in the order the set of sources is iterated.
ClientTasks(sources, conns) ==
    {s \in ServerTypes : s \in ActiveSources(sources) /\ s \in conns}

\* The gather loop: extend with what a task returned, log what it raised.
RECURSIVE Gather(_, _)
Gather(tasks, answers) ==
    IF tasks = <<>> THEN <<>>
    ELSE (IF answers[Head(tasks)].kind = "returned"
          THEN answers[Head(tasks)].items ELSE <<>>)
         \o Gather(Tail(tasks), answers)

\* MCPSearchClient(configs), against configured servers of which those in
\* avail accept a connection.
ClientConstruct(cfgs, avail) ==
    /\ mpc = "new"
    /\ mpc' = "ready"
    /\ configs' = cfgs
    /\ up' = avail
    /\ UNCHANGED <<connections, connected, connect_up, attempts, connects,
                   searches, search_out>>
    /\ UNCHANGED <<agentVars, unifiedVars, adapterVars, filterVars, slackVars,
                   handlerVars, repeatVars, stepVars, twinVars, loopVars,
                   deliveryVars>>

\* A server that refused the connection accepts one from now on.
ServerRecovers(s) ==
    /\ mpc = "ready"
    /\ s \in configs
    /\ s \notin up
    /\ up' = up \cup {s}
    /\ UNCHANGED <<mpc, configs, connections, connected, connect_up, attempts,
                   connects, searches, search_out>>
    /\ UNCHANGED <<agentVars, unifiedVars, adapterVars, filterVars, slackVars,
                   handlerVars, repeatVars, stepVars, twinVars, loopVars,
                   deliveryVars>>

\* await client.connect_all()
ConnectAll ==
    /\ mpc = "ready"
    /\ connects < MaxConnects
    /\ SetClient(connect_all(Client))
    /\ UNCHANGED <<mpc, searches, search_out>>
    /\ UNCHANGED <<agentVars, unifiedVars, adapterVars, filterVars, slackVars,
                   handlerVars, repeatVars, stepVars, twinVars, loopVars,
                   deliveryVars>>

\* await client.disconnect_all()
DisconnectAll ==
    /\ mpc = "ready"
    /\ connected
    /\ connections' = {}
    /\ connected' = FALSE
    /\ UNCHANGED <<mpc, configs, up, connect_up, attempts, connects, searches,
                   search_out>>
    /\ UNCHANGED <<agentVars, unifiedVars, adapterVars, filterVars, slackVars,
                   handlerVars, repeatVars, stepVars, twinVars, loopVars,
                   deliveryVars>>

\* What the _search_source of each task does when it is awaited: it raises
\* (-1), returns no result or returns a list of MaxResults results.
TaskAnswers(tasks) == [tasks -> {-1, 0, MaxResults}]
AnswerOf(s, k) ==
    IF k = -1 THEN [kind |-> "raised", items |-> <<>>]
    ELSE [kind |-> "returned", items |-> ResultList(s, k)]

\* await client.search(query, sources, limit): connect_all first when the
\* client is not marked connected, then one task per connected active
\* source, created in the order the sources are iterated and gathered in
\* that order.
ClientSearch(sources) ==
    /\ mpc = "ready"
    /\ searches < MaxSearches
    /\ connected \/ connects < MaxConnects
    /\ LET st == IF connected THEN Client ELSE connect_all(Client)
           tasks == ClientTasks(sources, st.connections)
       IN /\ SetClient(st)
          /\ \E order \in Orders(tasks), k \in TaskAnswers(tasks) :
               /\ Len(order) = Cardinality(tasks)
               /\ LET answers == [s \in ServerTypes |->
                                   IF s \in tasks THEN AnswerOf(s, k[s])
                                   ELSE NoOutcome]
                  IN search_out' = [done |-> TRUE,
                                    results |-> Gather(order, answers),
                                    raised |-> FALSE,
                                    answers |-> answers]
    /\ searches' = searches + 1
    /\ UNCHANGED mpc
    /\ UNCHANGED <<agentVars, unifiedVars, adapterVars, filterVars, slackVars,
                   handlerVars, repeatVars, stepVars, twinVars, loopVars,
                   deliveryVars>>

ClientNext ==
    \/ \E cfgs \in SUBSET ServerTypes : \E avail \in SUBSET cfgs :
         ClientConstruct(cfgs, avail)
    \/ \E s \in ServerTypes : ServerRecovers(s)
    \/ ConnectAll
    \/ DisconnectAll
    \/ \E sources \in SourceArgs : ClientSearch(sources)

(***************************************************************************)
(* Two mentions handled at once by one EagleEyeBot: the handler threads    *)
(* share self._loop                                                        *)
(***************************************************************************)
Threads == {"t1", "t2"}

NoRun == [kind |-> "none", cause |-> "none"]
Answer == [kind |-> "answer", cause |-> "none"]
\* f"__ERROR__:{e!s}" for what search raised, and for the RuntimeError
\* "This event loop is already running" of run_until_complete.
SearchFailed == [kind |-> "error", cause |-> "search"]
LoopBusy == [kind |-> "error", cause |-> "loop_running"]

LoopInit ==
    /\ lpc = [t \in Threads |-> "idle"]
    /\ loop = 0
    /\ loops_created = 0
    /\ used = [t \in Threads |-> 0]
    /\ running = {}
    /\ run_result = [t \in Threads |-> NoRun]

\* A handler thread reaches _run_claude_search or
\* _run_claude_search_with_progress.
Mention(t) ==
    /\ lpc[t] = "idle"
    /\ lpc' = [lpc EXCEPT ![t] = "check"]
    /\ UNCHANGED <<loop, loops_created, used, running, run_result>>
    /\ UNCHANGED <<agentVars, unifiedVars, adapterVars, filterVars, slackVars,
                   handlerVars, repeatVars, stepVars, twinVars, clientVars,
                   deliveryVars>>

\* if self._loop is None: (0 stands for None)
LoopCheck(t) ==
    /\ lpc[t] = "check"
    /\ lpc' = [lpc EXCEPT ![t] = IF loop = 0 THEN "create" ELSE "run"]
    /\ UNCHANGED <<loop, loops_created, used, running, run_result>>
    /\ UNCHANGED <<agentVars, unifiedVars, adapterVars, filterVars, slackVars,
                   handlerVars, repeatVars, stepVars, twinVars, clientVars,
                   deliveryVars>>

\* self._loop = asyncio.new_event_loop()
LoopCreate(t) ==
    /\ lpc[t] = "create"
    /\ loops_created' = loops_created + 1
    /\ loop' = loops_created + 1
    /\ lpc' = [lpc EXCEPT ![t] = "run"]
    /\ UNCHANGED <<used, running, run_result>>
    /\ UNCHANGED <<agentVars, unifiedVars, adapterVars, filterVars, slackVars,
                   handlerVars, repeatVars, stepVars, twinVars, clientVars,
                   deliveryVars>>

\* self._loop.run_until_complete(...) is entered: the loop read now refuses
\* to run when it is running already, and the except clause turns the
\* RuntimeError into the error string; otherwise the search is scheduled on
\* the loop.
RunUntilComplete(t) ==
    /\ lpc[t] = "run"
    /\ used' = [used EXCEPT ![t] = loop]
    /\ IF \E u \in running : used[u] = loop
       THEN /\ lpc' = [lpc EXCEPT ![t] = "done"]
            /\ run_result' = [run_result EXCEPT ![t] = LoopBusy]
       ELSE /\ lpc' = [lpc EXCEPT ![t] = "start"]
            /\ UNCHANGED run_result
    /\ UNCHANGED <<loop, loops_created, running>>
    /\ UNCHANGED <<agentVars, unifiedVars, adapterVars, filterVars, slackVars,
                   handlerVars, repeatVars, stepVars, twinVars, clientVars,
                   deliveryVars>>

\* run_until_complete starts the loop, which refuses again when another
\* thread has started it in between; otherwise the loop runs the search in
\* this thread.
RunForever(t) ==
    /\ lpc[t] = "start"
    /\ IF \E u \in running : used[u] = used[t]
       THEN /\ lpc' = [lpc EXCEPT ![t] = "done"]
            /\ run_result' = [run_result EXCEPT ![t] = LoopBusy]
            /\ UNCHANGED running
       ELSE /\ lpc' = [lpc EXCEPT ![t] = "running"]
            /\ running' = running \cup {t}
            /\ UNCHANGED run_result
    /\ UNCHANGED <<loop, loops_created, used>>
    /\ UNCHANGED <<agentVars, unifiedVars, adapterVars, filterVars, slackVars,
                   handlerVars, repeatVars, stepVars, twinVars, clientVars,
                   deliveryVars>>

\* The search is over: it returned its answer, or it raised and the except
\* clause returns the error string; the loop stops running.
SearchOver(t, result) ==
    /\ lpc[t] = "running"
    /\ lpc' = [lpc EXCEPT ![t] = "done"]
    /\ running' = running \ {t}
    /\ run_result' = [run_result EXCEPT ![t] = result]
    /\ UNCHANGED <<loop, loops_created, used>>
    /\ UNCHANGED <<agentVars, unifiedVars, adapterVars, filterVars, slackVars,
                   handlerVars, repeatVars, stepVars, twinVars, clientVars,
                   deliveryVars>>

LoopNext ==
    \/ \E t \in Threads : Mention(t)
    \/ \E t \in Threads : LoopCheck(t)
    \/ \E t \in Threads : LoopCreate(t)
    \/ \E t \in Threads : RunUntilComplete(t)
    \/ \E t \in Threads : RunForever(t)
    \/ \E t \in Threads : \E result \in {Answer, SearchFailed} :
         SearchOver(t, result)

(***************************************************************************)
(* handle_mention of the agent-driven bot with every call to Slack         *)
(* (chat.postMessage, say, chat.update) succeeding or failing              *)
(***************************************************************************)
\* How a call to Slack ends: it returns, it raises SlackApiError, or it
\* raises another exception (the request never got an answer).
CallOutcomes == {"ok", "SlackApiError", "other"}

\* str(e) of an exception of the second kind.
TRANSPORT_ERROR == <<"timed out">>

\* A call to Slack: what was sent, through which call, and how it ended.
SlackCall(what, api, how) == [what |-> what, api |-> api, outcome |-> how]

\* The messages of the stream: those with at most one content block, so
\* that a message notifies the callback at most once.
OneBlockMessages == {m \in Messages : Len(m.content) <= 1}

NoMention == [words |-> <<>>, channel |-> ""]

DeliveryInit ==
    /\ dpc = "idle"
    /\ mention = NoMention
    /\ loading_ts = ""
    /\ run = NoLocals
    /\ run_turns = 0
    /\ run_end = NoResult
    /\ search_outcome = NoResult
    /\ rendered = NoPayload
    /\ slack_log = <<>>
    /\ handler_raised = FALSE

\* _update_message: SlackApiError is logged and swallowed, anything else
\* propagates.
UpdateRaises(how) == how = "other"

\* say(...) and chat_postMessage outside a try: every failure propagates.
SayRaises(how) == how # "ok"

\* on_progress is passed when the loading message was posted.
WithProgress == loading_ts # "" /\ mention.channel # ""

\* The end of handle_mention: the response is rendered and delivered by
\* _update_message when the loading message was posted, by say otherwise.
Conclude(log, result, how) ==
    LET api == Deliver(loading_ts, mention.channel) IN
    /\ dpc' = "done"
    /\ search_outcome' = result
    /\ rendered' = Render(RunClaudeSearch(result))
    /\ slack_log' = Append(log, SlackCall("final", api, how))
    /\ handler_raised' = IF api = "update" THEN UpdateRaises(how)
                         ELSE SayRaises(how)

\* handle_mention up to the call of search: the help reply for an empty
\* query; otherwise the loading message, posted by chat_postMessage or, when
\* that raises SlackApiError, by say.
ReceiveMention(words, channel, post, fallback) ==
    /\ dpc = "idle"
    /\ channel = "" => post # "ok"     \* nothing is posted to a missing channel
    /\ mention' = [words |-> words, channel |-> channel]
    /\ IF QueryOf(words) = <<>>
       THEN /\ slack_log' = <<SlackCall("help", "say", post)>>
            /\ handler_raised' = SayRaises(post)
            /\ dpc' = "done"
            /\ UNCHANGED loading_ts
       ELSE /\ loading_ts' = IF post = "ok" THEN "ts" ELSE ""
            /\ slack_log' =
                 <<SlackCall("loading", "postMessage", post)>>
                 \o (IF post = "SlackApiError"
                     THEN <<SlackCall("loading", "say", fallback)>> ELSE <<>>)
            /\ handler_raised' =
                 (post = "other" \/ (post = "SlackApiError" /\ SayRaises(fallback)))
            /\ dpc' = IF handler_raised' THEN "done" ELSE "searching"
    /\ UNCHANGED <<run, run_turns, run_end, search_outcome, rendered>>
    /\ UNCHANGED <<agentVars, unifiedVars, adapterVars, filterVars, slackVars,
                   handlerVars, repeatVars, stepVars, twinVars, clientVars,
                   loopVars>>

\* The callback given to search: format_search_progress and
\* _update_message.  A callback that raises ends search with its exception.
Notify(log, how) == Append(log, SlackCall("progress", "update", how))

\* search starts: with a callback it notifies "thinking" before the stream
\* is opened.
SearchStart(how, final) ==
    /\ dpc = "searching"
    /\ IF WithProgress
       THEN /\ run' = Locals(None, <<>>, <<Thinking>>, <<>>)
            /\ IF UpdateRaises(how)
               THEN Conclude(Notify(slack_log, how),
                             SearchRaise(TRANSPORT_ERROR), final)
               ELSE /\ dpc' = "streaming"
                    /\ slack_log' = Notify(slack_log, how)
                    /\ UNCHANGED <<search_outcome, rendered, handler_raised>>
       ELSE /\ run' = NoLocals
            /\ dpc' = "streaming"
            /\ UNCHANGED <<slack_log, search_outcome, rendered, handler_raised>>
    /\ UNCHANGED <<mention, loading_ts, run_turns, run_end>>
    /\ UNCHANGED <<agentVars, unifiedVars, adapterVars, filterVars, slackVars,
                   handlerVars, repeatVars, stepVars, twinVars, clientVars,
                   loopVars>>

\* The stream delivers one message; the callback is awaited when the
\* message makes search emit an event.
ProgressMessage(message, how, final) ==
    /\ dpc = "streaming"
    /\ run_turns < MaxMessages
    /\ run_turns' = run_turns + 1
    /\ run' = OnMessage(run, message, WithProgress)
    /\ IF run'.ev = run.ev
       THEN UNCHANGED <<dpc, slack_log, search_outcome, rendered, handler_raised>>
       ELSE IF UpdateRaises(how)
            THEN Conclude(Notify(slack_log, how),
                          SearchRaise(TRANSPORT_ERROR), final)
            ELSE /\ slack_log' = Notify(slack_log, how)
                 /\ UNCHANGED <<dpc, search_outcome, rendered, handler_raised>>
    /\ UNCHANGED <<mention, loading_ts, run_end>>
    /\ UNCHANGED <<agentVars, unifiedVars, adapterVars, filterVars, slackVars,
                   handlerVars, repeatVars, stepVars, twinVars, clientVars,
                   loopVars>>

\* The stream ends: search returns and handle_mention delivers the answer.
StreamEnds(final) ==
    /\ dpc = "streaming"
    /\ run_end' = [kind |-> "ended", value |-> <<>>]
    /\ Conclude(slack_log, SearchReturn(run.final), final)
    /\ UNCHANGED <<mention, loading_ts, run, run_turns>>
    /\ UNCHANGED <<agentVars, unifiedVars, adapterVars, filterVars, slackVars,
                   handlerVars, repeatVars, stepVars, twinVars, clientVars,
                   loopVars>>

\* The stream raises: search raises and handle_mention delivers the error.
StreamRaises(e, final) ==
    /\ dpc = "streaming"
    /\ run_end' = [kind |-> "raised", value |-> e]
    /\ Conclude(slack_log, SearchRaise(e), final)
    /\ UNCHANGED <<mention, loading_ts, run, run_turns>>
    /\ UNCHANGED <<agentVars, unifiedVars, adapterVars, filterVars, slackVars,
                   handlerVars, repeatVars, stepVars, twinVars, clientVars,
                   loopVars>>

DeliveryNext ==
    \/ \E words \in MentionTexts, channel \in Channels :
         \E post \in CallOutcomes, fallback \in CallOutcomes :
            ReceiveMention(words, channel, post, fallback)
    \/ \E how \in CallOutcomes, final \in CallOutcomes :
         SearchStart(how, final)
    \/ \E message \in OneBlockMessages :
         \E how \in CallOutcomes, final \in CallOutcomes :
            ProgressMessage(message, how, final)
    \/ \E final \in CallOutcomes : StreamEnds(final)
    \/ \E e \in Errors, final \in CallOutcomes : StreamRaises(e, final)

Init ==
    /\ AgentInit /\ UnifiedInit /\ AdapterInit
    /\ FilterInit /\ SlackInit /\ HandlerInit /\ RepeatInit
    /\ StepInit /\ TwinInit /\ ClientInit /\ LoopInit
    /\ DeliveryInit

\* The agent-driven bot handling one mention.
Spec == Init /\ [][Next]_vars

\* The thread-pool bot running one _unified_search.
SpecUnified == Init /\ [][UnifiedNext]_vars

\* The same with the scheduling the call relies on: a free worker takes a
\* submitted task, every adapter call returns or raises, as_completed yields
\* every finished future, and the function returns once it is exhausted.
SpecUnifiedFair ==
    /\ SpecUnified
    /\ WF_vars(\E s \in AllSources : TaskStart(s))
    /\ WF_vars(\E s \in AllSources : \E out \in Outcomes(s) : TaskFinish(s, out))
    /\ WF_vars(\E s \in AllSources : Collect(s))
    /\ WF_vars(UnifiedReturn)

\* One per-source search against one backend response.
SpecAdapter == Init /\ [][AdapterNext]_vars

\* The agent constructed from some settings, filtering for one query.
SpecFilter == Init /\ [][FilterNext]_vars

\* One _search_slack against a Slack server.
SpecSlack == Init /\ [][SlackNext]_vars

\* One command or mention reaching its handler.
SpecHandlers == Init /\ [][HandlerNext]_vars

\* _unified_search called twice against unchanging backends.
SpecRepeat == Init /\ [][RepeatNext]_vars

\* One tool invocation read by search.
SpecToolUse == Init /\ [][StepNext]_vars

\* search run with and without a callback on one stream.
SpecTwin == Init /\ [][TwinNext]_vars

\* One MCPSearchClient connecting, searching and disconnecting.
SpecClient == Init /\ [][ClientNext]_vars

\* Two mentions handled concurrently by one bot.
SpecLoop == Init /\ [][LoopNext]_vars

\* The agent-driven bot handling one mention, with Slack calls that may fail.
SpecDelivery == Init /\ [][DeliveryNext]_vars


(***************************************************************************)
(* Claims about ClaudeSearchAgent.search and handle_mention (under Spec)   *)
(***************************************************************************)

\* C1: with a progress callback, a stream that invokes tools of a source a,
\* then tools of another source b, then delivers the answer text in a later
\* message yields exactly the events thinking, searching(a, []),
\* searching(b, [a]), consolidating([a, b]), in this order.
C1_ProgressOrder ==
    (on_progress /\ shape.phase = "ABT") =>
        events = << Thinking,
                    Searching(shape.a, <<>>),
                    Searching(shape.b, <<shape.a>>),
                    Consolidating(<<shape.a, shape.b>>) >>

C1_Witness ==
    /\ on_progress
    /\ shape = Shape("ABT", "slack", "notion")
    /\ search_result.kind = "returned"
    /\ Len(events) = 4

\* C2: the delivered statuses follow the lifecycle thinking, then zero or
\* more searching, then at most one consolidating: thinking is delivered
\* once and first, and nothing follows a consolidating event.
C2_Lifecycle ==
    (on_progress /\ pc # "idle") =>
        /\ Len(events) >= 1
        /\ events[1].status = "thinking"
        /\ \A i \in 2..Len(events) : events[i].status # "thinking"
        /\ \A i \in 1..Len(events) :
             events[i].status = "consolidating" => i = Len(events)

\* C3 as stated: when the stream ends without raising, search returns the
\* text of the last text block observed, or the placeholder when no text was
\* ever captured (read here as: no block with a non-empty text), and the
\* returned string is non-empty.
C3_LastTextOrPlaceholder ==
    search_result.kind = "returned" =>
        /\ search_result.value =
             IF last_text.any THEN last_text.text ELSE NO_RESULTS
        /\ search_result.value # <<>>

\* C3 amended: when the stream ends without raising, search returns the text
\* of the last text block of the assistant messages when that text is
\* non-empty, and the placeholder when no text block was read or the last one
\* read is empty; the returned string is non-empty.
C3_LastNonEmptyTextOrPlaceholder ==
    search_result.kind = "returned" =>
        /\ search_result.value =
             IF last_text.seen /\ last_text.text # <<>>
             THEN last_text.text ELSE NO_RESULTS
        /\ search_result.value # <<>>

C3_Witness ==
    /\ search_result.kind = "returned"
    /\ last_text.any
    /\ last_text.text = <<>>
    /\ search_result.value = NO_RESULTS

\* C4: when the stream raises, search raises that exception instead of
\* returning an answer or the placeholder, and the raising step delivers no
\* progress event and withdraws none: the events delivered so far stay as
\* they are, then and afterwards.
C4_StreamFailurePropagates ==
    /\ [](stream_end.kind = "raised" =>
            search_result = [kind |-> "raised", value |-> stream_end.value])
    /\ [][stream_end'.kind = "raised" => events' = events]_vars

C4_Witness ==
    /\ stream_end.kind = "raised"
    /\ search_result.kind = "raised"
    /\ on_progress
    /\ Len(events) >= 2
    /\ final_response # <<>>

\* C5: the final message is rendered as an error if and only if the search
\* raised, whatever the answer text.
C5_ErrorIffRaised ==
    (pc = "done" /\ delivery \in {"update", "say"}) =>
        (final_payload.kind = "error" <=> search_result.kind = "raised")

\* C20: whenever answer text (a non-empty text block) has been received
\* from the stream and a progress callback was supplied, a consolidating
\* event has been emitted, carrying the completed_tools list; this holds
\* also when no tool was ever invoked, completed_tools being empty then.
C20_ConsolidatingOnAnswerText ==
    (on_progress /\ last_text.any) =>
        \E i \in 1..Len(events) :
            /\ events[i].status = "consolidating"
            /\ current_server = None => events[i].completed_tools = <<>>


(***************************************************************************)
(* Claims about _unified_search (under SpecUnified)                        *)
(***************************************************************************)
\* The results of one source, in the order they stand in the list.
OfSource(list, source) == SelectSeq(list, LAMBDA r : r.source = source)

Returned(S) == {s \in S : outcome[s].kind = "returned"}

\* C6: when adapters of active sources raise and the others return, the call
\* raises nothing and returns exactly the results of the adapters that
\* returned (one raising and one returning N results yield N results),
\* whatever the order in which the tasks complete.
C6_PartialFailureIsolated ==
    /\ upc # "raised"
    /\ upc = "done" =>
         /\ \A s \in AllSources :
              OfSource(results, s) =
                  IF outcome[s].kind = "returned" THEN outcome[s].items ELSE <<>>
         /\ \A i \in 1..Len(results) : results[i].source \in Returned(AllSources)

C6_Witness ==
    /\ upc = "done"
    /\ call.sources = [given |-> TRUE, set |-> {"slack", "notion"}]
    /\ outcome["notion"].kind = "raised"
    /\ outcome["slack"] = [kind |-> "returned", items |-> ResultList("slack", 2)]
    /\ Len(results) = 2

\* C7 as stated: called with the explicit empty set, _unified_search returns
\* the empty list and invokes no adapter.
C7_EmptySetSearchesNothing ==
    (upc = "done" /\ call.sources = [given |-> TRUE, set |-> {}]) =>
        /\ results = <<>>
        /\ \A s \in AllSources : invoked[s] = <<>>

\* C7 amended: called with the explicit empty set, _unified_search searches
\* every source, as it does for None: each of the three adapters is invoked
\* once and the call returns what they returned, the empty list only when
\* none of them returned a result.
C7_EmptySetSearchesAll ==
    (upc = "done" /\ call.sources = [given |-> TRUE, set |-> {}]) =>
        /\ \A s \in AllSources : Len(invoked[s]) = 1
        /\ \A s \in Returned(AllSources) :
             \A i \in 1..Len(outcome[s].items) :
                \E j \in 1..Len(results) : results[j] = outcome[s].items[i]
        /\ results = <<>> <=> \A s \in Returned(AllSources) : outcome[s].items = <<>>

C7_Witness ==
    /\ upc = "done"
    /\ call.sources = [given |-> TRUE, set |-> {}]
    /\ \A s \in AllSources : Len(invoked[s]) = 1
    /\ Len(results) = 3

\* The active set the claim C8 describes: the given set when it is non-empty,
\* all three sources when sources is None or the empty set.
Resolved(sources) ==
    IF ~sources.given \/ sources.set = {} THEN {"slack", "notion", "linear"}
    ELSE sources.set

\* C8: _unified_search invokes exactly the adapters of the resolved active
\* set, each exactly once with the caller's (query, limit), and no adapter
\* outside that set; before it returns no adapter was invoked twice or with
\* other arguments.
C8_InvokesActiveAdaptersOnce ==
    /\ \A s \in AllSources :
         /\ Len(invoked[s]) <= 1
         /\ \A i \in 1..Len(invoked[s]) : invoked[s][i] = <<call.query, call.limit>>
         /\ s \notin Resolved(call.sources) => invoked[s] = <<>>
    /\ upc = "done" =>
         \A s \in AllSources :
            Len(invoked[s]) = IF s \in Resolved(call.sources) THEN 1 ELSE 0

C8_Witness ==
    /\ upc = "done"
    /\ call = [query |-> "q2", limit |-> 2,
               sources |-> [given |-> TRUE, set |-> {"slack", "linear"}]]
    /\ invoked = [s \in AllSources |->
                    IF s = "notion" THEN <<>> ELSE << <<"q2", 2>> >>]

\* C17: in the list _unified_search builds and returns, the results of each
\* source form one contiguous block, in the order the adapter of the source
\* produced them; the results of two sources are never interleaved,
\* whatever the order in which the tasks run and complete.
C17_SourceBlocksContiguous ==
    /\ \A i \in 1..Len(results) : \A k \in i..Len(results) :
         results[i].source = results[k].source =>
            \A j \in i..k : results[j].source = results[i].source
    /\ \A s \in AllSources :
         OfSource(results, s) =
            IF s \in consumed /\ outcome[s].kind = "returned"
            THEN outcome[s].items ELSE <<>>

C17_Witness ==
    /\ upc = "done"
    /\ results = ResultList("notion", 2) \o ResultList("linear", 1)
                    \o ResultList("slack", 2)


(***************************************************************************)
(* Claims about two calls of _unified_search (under SpecRepeat)            *)
(***************************************************************************)

\* C18: when _unified_search is called twice with the same arguments and the
\* adapters answer the second call as they answered the first, the second
\* call returns the results of the first up to their order: the same
\* results of each source, and no other; nothing the first call left
\* changes what the second returns.
C18_SecondCallEqualUpToOrder ==
    (upc = "done" /\ previous.set) =>
        /\ BySource(results) = previous.by_source
        /\ Len(results) = previous.len

C18_Witness ==
    /\ upc = "done"
    /\ previous.set
    /\ call.sources = NoSources
    /\ responses["notion"].kind = "raised"
    /\ results = ResultList("linear", 2) \o ResultList("slack", 1)


(***************************************************************************)
(* Claims about the per-source searches (under SpecAdapter)                *)
(***************************************************************************)
Adapters == {"slack", "notion", "linear"}

\* C9: the Slack, Notion and Linear adapters never raise to their caller,
\* whatever the backend call or the mapping of its response raises, and
\* return the empty list when the backend call itself fails.
C9_AdaptersNeverRaise ==
    (apc = "done" /\ backend.search \in Adapters) =>
        /\ ~adapter_out.raised
        /\ backend.resp.kind = "raised" => adapter_out.results = <<>>

C9_Witness ==
    /\ apc = "done"
    /\ backend.search = "linear"
    /\ backend.resp.kind = "list"
    /\ \E i \in 1..Len(backend.resp.items) :
         i <= backend.limit /\ ~backend.resp.items[i].ok
    /\ ~adapter_out.raised

\* C10: when the response is a list of independent items and mapping one of
\* them raises, the search skips only that item: every well-formed item of
\* the batch (one that matches the query, for the Slack channel history) is
\* still returned, be it before or after the malformed one.  Stated for
\* batches that fit the limit, so that truncation plays no part.
C10_MalformedItemSkippedAlone ==
    (/\ apc = "done"
     /\ backend.search \in {"slack", "mcp_slack", "mcp_notion"}
     /\ backend.resp.kind = "list"
     /\ Len(backend.resp.items) <= backend.limit) =>
        \A i \in 1..Len(backend.resp.items) :
            LET item == backend.resp.items[i] IN
            (item.ok /\ (backend.search = "mcp_slack" => item.match)) =>
                InSeq(Result(SourceOf(backend.search), item.id), adapter_out.results)


\* C14: every per-source search returns at most limit results, whatever the
\* number of items the backend returns: the Slack, Notion and Linear
\* adapters, and each source searched by MCPSearchClient.search.
C14_AtMostLimit ==
    apc = "done" => Len(adapter_out.results) <= backend.limit


(***************************************************************************)
(* Claims about the configured servers and the query filter (under         *)
(* SpecFilter)                                                             *)
(***************************************************************************)

\* C11: for every query, when at least one source is configured, the
\* servers and the tools _filter_servers_for_query returns are not empty,
\* also when the keywords of the query match only sources that are not
\* configured.
C11_FilterNeverEmpty ==
    (fpc = "filtered" /\ mcp_servers # {}) =>
        /\ filtered.servers # {}
        /\ filtered.tools # <<>>

\* The sources one of whose keywords occurs in the text between two of its
\* positions.
Matching(text) ==
    {server \in Servers :
        \E keyword \in SERVER_KEYWORDS[server] :
            \E i \in 1..Len(text) : \E j \in i..Len(text) :
                SubSeq(text, i, j) = keyword}

\* C12: detect_relevant_servers(query) is exactly the set of the sources
\* that have a keyword occurring as a substring of the lower-cased query,
\* and all four sources when no source has one; it depends on the query and
\* the keyword table only, not on what is configured.
C12_RelevantIsKeywordMatch ==
    fpc = "filtered" =>
        filtered.relevant =
            IF Matching(Lower(user_query)) = {} THEN Servers
            ELSE Matching(Lower(user_query))

C12_Witness ==
    /\ fpc = "filtered"
    /\ user_query = <<"F", "i", "n", "d", " ", "P", "R">>
    /\ settings.enable = {"slack"}
    /\ filtered.relevant = {"github"}

\* C13: create_mcp_server_configs includes a source if and only if it is
\* enabled and its credential is non-empty, for each of slack, notion,
\* linear and github.
C13_IncludedIffEnabledAndCredential ==
    fpc # "idle" =>
        \A s \in Servers :
            s \in mcp_servers <=> (s \in settings.enable /\ s \in settings.credential)


\* The sources named by a list of tools.
SourcesOf(tools) ==
    {extract_server_from_tool_name(tools[i]) : i \in 1..Len(tools)}

\* C30: for every query and every configuration, the tools and the servers
\* passed to the reasoning process name the same set of sources: every
\* passed tool belongs to a passed server, and every passed server has at
\* least one passed tool.
C30_ToolsAndServersAgree ==
    /\ fpc # "idle" => SourcesOf(allowed_tools) = mcp_servers
    /\ fpc = "filtered" => SourcesOf(filtered.tools) = filtered.servers

C30_Witness ==
    /\ fpc = "filtered"
    /\ settings.enable = Servers
    /\ "github" \notin settings.credential
    /\ user_query = <<"b", "u", "g", " ", "i", "n", " ", "r", "e", "p", "o">>
    /\ filtered.relevant = {"linear", "github"}
    /\ filtered.servers = {"linear"}


(***************************************************************************)
(* Claims about MCPSearchClient._search_slack (under SpecSlack)            *)
(***************************************************************************)

\* C15: _search_slack returns only messages whose text contains the query,
\* and returns every such message of the channels it fetched, in channel
\* order then message order, truncated to limit.
C15_ReturnsEveryMatch ==
    spc = "done" =>
        /\ \A i \in 1..Len(slack_out) : slack_out[i].match
        /\ slack_out = expected

\* C16: _search_slack issues one channel-list call, then fetches the history
\* of at most 5 channels, in list order; it fetches no further channel once
\* the accumulated matches have reached limit (stated for limit >= 1), and
\* leaves a channel unfetched for that reason only; a channel whose fetch
\* fails is skipped: the matches accumulated stay as they are and the loop
\* goes on to the remaining channels.
C16_ChannelFetchDiscipline ==
    /\ [](/\ spc # "idle" => slack_call.list_calls = 1
          /\ Len(fetched) <= ChannelCeiling
          /\ slack_call.channels.kind # "list" => fetched = <<>>
          /\ Len(fetched) <= slack_call.channels.n
          /\ \A i \in 1..Len(fetched) : fetched[i] = i
          /\ (spc = "done" /\ Len(fetched) < ChannelCeiling
                            /\ Len(fetched) < slack_call.channels.n) =>
                Len(slack_results) >= slack_call.limit)
    /\ [][fetched' # fetched =>
            /\ Len(slack_results) < slack_call.limit
            /\ last_fetch' # "ok" =>
                 /\ slack_results' = slack_results
                 /\ (Len(fetched') < ChannelCeiling
                        /\ Len(fetched') < slack_call.channels.n) => spc' = "loop"]_vars

C16_Witness ==
    /\ spc = "done"
    /\ slack_call.channels = [kind |-> "list", n |-> MaxChannels]
    /\ Len(fetched) = ChannelCeiling
    /\ skipped
    /\ Len(slack_results) = 2
    /\ slack_results[1].channel = 1
    /\ slack_results[2].channel = ChannelCeiling


(***************************************************************************)
(* Claims about the handlers (under SpecHandlers)                          *)
(***************************************************************************)
Blank(text) == \A i \in 1..Len(text) : text[i] = " "

\* A text made of filter flags and spaces only, with one flag at least.
OnlyFlags(text) ==
    /\ \A i \in 1..Len(text) : text[i] \in FlagAtoms \cup {" "}
    /\ \E i \in 1..Len(text) : text[i] \in FlagAtoms

C21_SearchingIffSourceChanges ==
    tool_step.done =>
        LET b == tool_step.before
            a == tool_step.after
            server == extract_server_from_tool_name(tool_step.name)
            changes == server # None /\ server # b.cur
        IN /\ (tool_step.callback /\ changes) =>
                /\ Len(a.ev) = Len(b.ev) + 1
                /\ SubSeq(a.ev, 1, Len(b.ev)) = b.ev
                /\ a.ev[Len(a.ev)].status = "searching"
                /\ a.ev[Len(a.ev)].current_tool = server
                /\ a.cur = server
           /\ ~(tool_step.callback /\ changes) => a.ev = b.ev
           /\ ~changes => (a.cur = b.cur /\ a.comp = b.comp)

C21_Witness ==
    /\ tool_step.done
    /\ tool_step.callback
    /\ tool_step.before.cur = "slack"
    /\ tool_step.name = Tool("slack", "slack_get_channel_history")
    /\ tool_step.before.comp = <<"notion", "slack">>
    /\ tool_step.after = tool_step.before

(***************************************************************************)
(* Claims about the progress events of one query (under Spec)              *)
(***************************************************************************)

\* C22: in every searching event delivered during a query, current_tool is
\* not a member of completed_tools, whatever the order of the tool
\* invocations, the agent returning to an earlier source included.
C22_ActiveNeverCompleted ==
    \A i \in 1..Len(events) :
        events[i].status = "searching" =>
            ~InSeq(events[i].current_tool, events[i].completed_tools)

\* completed_tools as format_search_progress reads it: None is the empty
\* list.
CompletedOf(event) ==
    IF event.completed_tools = NoList THEN <<>> ELSE event.completed_tools

IsPrefix(a, b) == Len(a) <= Len(b) /\ SubSeq(b, 1, Len(a)) = a

\* C23: across the progress events of one query completed_tools only grows:
\* each event's list holds no source twice and extends the list of the event
\* before it as a prefix.
C23_CompletedOnlyGrows ==
    \A i \in 1..Len(events) :
        /\ \A j, k \in 1..Len(CompletedOf(events[i])) :
             j # k => CompletedOf(events[i])[j] # CompletedOf(events[i])[k]
        /\ i > 1 => IsPrefix(CompletedOf(events[i - 1]), CompletedOf(events[i]))

C23_Witness ==
    /\ Len(events) >= 5
    /\ events[4] = Searching("slack", <<"slack", "notion">>)
    /\ events[5] = Searching("notion", <<"slack", "notion">>)

(***************************************************************************)
(* Claims about search with and without a callback (under SpecTwin)        *)
(***************************************************************************)

\* C24: for one stream of messages, search returns the same string, or
\* raises the same exception, whether or not a progress callback (one that
\* does not raise) is supplied.
C24_SameOutcomeWithOrWithoutCallback ==
    tpc = "done" => twin_out.notified = twin_out.silent

C24_Witness ==
    /\ tpc = "done"
    /\ twin_out.notified.kind = "returned"
    /\ twin_out.notified.value = <<"found">>
    /\ notified.comp = <<"slack", "notion">>
    /\ silent.comp = <<"slack">>
    /\ Len(notified.ev) >= 4

(***************************************************************************)
(* Claims about the pool of _unified_search (under SpecUnifiedFair)        *)
(***************************************************************************)

\* C28: _unified_search returns only after every submitted task has
\* completed or failed (and was handled); the pool has one worker per active
\* source, so a submitted task never waits for another one to finish; and
\* the call does return whenever every adapter call returns or raises.
C28_ReturnsAfterAllTasks ==
    /\ [](upc = "done" =>
            \A s \in SearchTasks(call.sources) :
                futures[s] = "finished" /\ s \in consumed)
    /\ [](\A s \in AllSources :
            (upc = "collecting" /\ futures[s] = "pending") =>
                Cardinality({t \in AllSources : futures[t] = "running"})
                    < MaxWorkers(call.sources))
    /\ (upc = "collecting" ~> upc = "done")

C28_Witness ==
    /\ upc = "collecting"
    /\ futures["slack"] = "running"
    /\ futures["notion"] = "running"
    /\ futures["linear"] = "pending"
    /\ MaxWorkers(call.sources) = 3

(***************************************************************************)
(* Claims about MCPSearchClient (under SpecClient)                         *)
(***************************************************************************)

\* C29: a server whose connection attempt fails during connect_all does not
\* prevent the other servers from connecting, and the client is marked
\* connected regardless; later searches do not try the failed connection
\* again (until disconnect_all), do not raise, return the results of the
\* connected servers and nothing for the failed one.
C29_FailedConnectionIsolated ==
    /\ [](connected => connections = configs \cap connect_up)
    /\ [][connects' = connects + 1 => connected']_vars
    /\ [][(connected /\ searches' = searches + 1) =>
            (attempts' = attempts /\ connections' = connections)]_vars
    /\ [][searches' = searches + 1 =>
            /\ ~search_out'.raised
            /\ \A i \in 1..Len(search_out'.results) :
                 search_out'.results[i].source \in connections'
            /\ \A s \in ServerTypes :
                 SelectSeq(search_out'.results, LAMBDA r : r.source = s)
                   = IF s \in connections' THEN search_out'.answers[s].items
                     ELSE <<>>]_vars

C29_Witness ==
    /\ configs = {"slack", "notion"}
    /\ connections = {"notion"}
    /\ connected
    /\ "slack" \in up
    /\ attempts["slack"] = 1
    /\ searches = 2
    /\ search_out.done
    /\ search_out.results = ResultList("notion", 2)

(***************************************************************************)
(* Claims about concurrent mentions (under SpecLoop)                       *)
(***************************************************************************)

\* C25: when two mentions are handled concurrently by one bot, no search
\* ends as an error because the bot's event loop is already running the
\* other search, and the lazy creation never produces two loops.
C25_ConcurrentSearchesIndependent ==
    /\ \A t \in Threads : run_result[t] # LoopBusy
    /\ loops_created <= 1

(***************************************************************************)
(* Claims about handle_mention and its calls to Slack (under SpecDelivery) *)
(***************************************************************************)

\* C26: when chat.update fails inside the progress callback, the search is
\* not aborted: it goes on to the end of the stream, its outcome is what the
\* stream made it, and the final delivery of that outcome is made.
C26_ProgressFailureDoesNotAbort ==
    (/\ dpc = "done"
     /\ \E i \in 1..Len(slack_log) :
          slack_log[i].what = "progress" /\ slack_log[i].outcome # "ok") =>
        /\ run_end.kind # "none"
        /\ search_outcome = IF run_end.kind = "ended"
                            THEN SearchReturn(run.final)
                            ELSE SearchRaise(run_end.value)
        /\ slack_log[Len(slack_log)].what = "final"
        /\ rendered = Render(RunClaudeSearch(search_outcome))

\* C27: for every mention with a non-empty query the handler attempts
\* exactly one final delivery, after the search has returned or failed and
\* after every progress update, by an update of the loading message when it
\* was posted and by a new message otherwise; when posting the loading
\* message fails, the search still runs, without progress updates, and the
\* final response is posted as a new message.
C27_ExactlyOneFinalDelivery ==
    (dpc = "done" /\ QueryOf(mention.words) # <<>>) =>
        LET last == slack_log[Len(slack_log)]
            finals == {i \in 1..Len(slack_log) : slack_log[i].what = "final"}
            progress == {i \in 1..Len(slack_log) :
                           slack_log[i].what = "progress"}
        IN /\ finals = {Len(slack_log)}
           /\ search_outcome # NoResult
           /\ last.api = IF loading_ts # "" THEN "update" ELSE "say"
           /\ slack_log[1].outcome # "ok" =>
                (progress = {} /\ last.api = "say")
====
